---- MODULE Spec2Model ----
(***************************************************************************)
(* Smart-Chess: the board model, the piece movement rules, the check and   *)
(* legality engine and the move appliers of src/pieces.py, src/checked.py, *)
(* src/game_logic.py, src/board.py and src/utils.py, driven by the turns   *)
(* of the game loop of src/app.py.                                         *)
(*                                                                         *)
(* A Python call either returns a value or raises.  Functions that can     *)
(* raise are modelled with string results: "True" and "False" for the      *)
(* boolean return values, and the exception's class name ("TypeError",     *)
(* "IndexError") when the call raises.                                     *)
(***************************************************************************)
EXTENDS Integers, Sequences, FiniteSets, TLC

\* ------------------------------------------------------------------------
\* Bounds of the model
\* ------------------------------------------------------------------------

\* the number of moves the game loop applies in one explored game
MaxMoves == 14

\* the largest depth minimax and iterative_deepening are called with
MaxDepth == 2

\* the largest number of simulations mcts is called with
MaxSimulations == 2

\* ------------------------------------------------------------------------
\* Squares: algebraic strings and grid indices (src/utils.py)
\* ------------------------------------------------------------------------

\* an algebraic square is the two-character string <<file letter, rank digit>>
FileLetters == <<"a", "b", "c", "d", "e", "f", "g", "h">>
RankDigits == <<"1", "2", "3", "4", "5", "6", "7", "8">>

Idx == 0..7

\* the characters of the square strings of the model
Letters == <<"a", "b", "c", "d", "e", "f", "g", "h", "i">>
Digits == <<"0", "1", "2", "3", "4", "5", "6", "7", "8", "9">>

\* ord(ch.lower()) - ord('a') for the letters a..i
LetterOffset == [ch \in {Letters[i] : i \in 1..Len(Letters)} |->
                   (CHOOSE i \in 1..Len(Letters) : Letters[i] = ch) - 1]

\* int(ch) for the digits 0..9; for any other character int(ch) raises
\* ValueError
DigitValue == [ch \in {Digits[i] : i \in 1..Len(Digits)} |->
                 (CHOOSE i \in 1..Len(Digits) : Digits[i] = ch) - 1]

\* utils.position_to_indices: "None" when the call returns, "ValueError" when
\* int(position[1]) raises
position_to_indices_raises(position) ==
    IF position[2] \in DOMAIN DigitValue THEN "None" ELSE "ValueError"

\* utils.position_to_indices when it returns: 'a1' -> (row, col) = (0, 0).
\* Nothing tests that the pair lies on the board.
position_to_indices(position) ==
    <<DigitValue[position[2]] - 1, LetterOffset[position[1]]>>

\* the try/except that opens every valid_moves (pieces.py lines 39-44,
\* 133-138, 210-215, 269-274, 323-328, 364-369): a ValueError of either
\* conversion is printed and the predicate returns False
conversion_fails(start_pos, end_pos) ==
    \/ position_to_indices_raises(start_pos) = "ValueError"
    \/ position_to_indices_raises(end_pos) = "ValueError"

\* utils.indices_to_position(col, row): the FIRST parameter is the column
indices_to_position(col, row) ==
    <<FileLetters[col + 1], RankDigits[row + 1]>>

Positions == {indices_to_position(c, r) : c \in Idx, r \in Idx}

\* ------------------------------------------------------------------------
\* Pieces (src/pieces.py) and the board (src/board.py)
\* ------------------------------------------------------------------------

\* Python's None in a board cell
None == [id |-> 0, type |-> "None", color |-> "none", position |-> <<>>,
         has_moved |-> FALSE]

\* Piece.__init__ and the subclasses' __init__: has_moved starts False.  Only
\* King, Rook and Pawn objects carry the attribute; for the other types the
\* field stays FALSE and is never written (see hasattr_has_moved).  id is the
\* identity of the Python object: two cells hold the same object exactly when
\* the ids of their pieces are equal.
Piece(id, type, color, position) ==
    [id |-> id, type |-> type, color |-> color, position |-> position,
     has_moved |-> FALSE]

\* a variant of hasattr_has_moved in which a rook has no has_moved attribute
hasattr_has_moved_without_rook(piece) == piece.type \in {"King", "Pawn"}

\* hasattr(piece, 'has_moved')
hasattr_has_moved(piece) == piece.type \in {"King", "Rook", "Pawn"}

opponent(color) == IF color = "white" THEN "black" ELSE "white"

EmptyBoard == [r \in Idx |-> [c \in Idx |-> None]]

\* board[row][col] with Python's list indexing: -8..-1 count from the end,
\* anything else outside 0..7 raises IndexError
InRange(i) == i \in -8..7
Cell(board, row, col) == board[row % 8][col % 8]

\* The default FEN piece placement, one sequence of characters per rank
DefaultFen ==
    << <<"r", "n", "b", "q", "k", "b", "n", "r">>,
       <<"p", "p", "p", "p", "p", "p", "p", "p">>,
       <<"8">>, <<"8">>, <<"8">>, <<"8">>,
       <<"P", "P", "P", "P", "P", "P", "P", "P">>,
       <<"R", "N", "B", "Q", "K", "B", "N", "R">> >>

FenDigits == {"1", "2", "3", "4", "5", "6", "7", "8"}
FenUpper == {"K", "Q", "R", "B", "N", "P"}

\* char.upper() on the FEN piece letters
FenPieceChar(ch) ==
    CASE ch \in {"K", "k"} -> "K"
      [] ch \in {"Q", "q"} -> "Q"
      [] ch \in {"R", "r"} -> "R"
      [] ch \in {"B", "b"} -> "B"
      [] ch \in {"N", "n"} -> "N"
      [] ch \in {"P", "p"} -> "P"

FenPieceType(ch) ==
    CASE FenPieceChar(ch) = "K" -> "King"
      [] FenPieceChar(ch) = "Q" -> "Queen"
      [] FenPieceChar(ch) = "R" -> "Rook"
      [] FenPieceChar(ch) = "B" -> "Bishop"
      [] FenPieceChar(ch) = "N" -> "Knight"
      [] FenPieceChar(ch) = "P" -> "Pawn"

\* the inner loop of initialize_board over the characters of one rank string;
\* the piece's position is computed by indices_to_position(row, col), i.e.
\* with the row passed as the column parameter
RECURSIVE place_rank(_, _, _, _, _)
place_rank(board, rank_str, k, row, col) ==
    IF k > Len(rank_str) THEN board
    ELSE LET char == rank_str[k] IN
         IF char \in FenDigits
         THEN place_rank(board, rank_str, k + 1, row, col + DigitValue[char])
         ELSE LET color == IF char \in FenUpper THEN "white" ELSE "black"
                  position == indices_to_position(row, col)
                  piece == Piece(8 * row + col + 1, FenPieceType(char), color,
                                 position)
              IN place_rank([board EXCEPT ![row][col] = piece],
                            rank_str, k + 1, row, col + 1)

RECURSIVE place_ranks(_, _, _)
place_ranks(board, ranks, i) ==
    IF i > Len(ranks) THEN board
    ELSE place_ranks(place_rank(board, ranks[i], 1, 7 - (i - 1), 0), ranks, i + 1)

\* board.initialize_board(fen)
initialize_board(fen) == place_ranks(EmptyBoard, fen, 1)

Abs(x) == IF x < 0 THEN -x ELSE x
Max(x, y) == IF x > y THEN x ELSE y

\* ------------------------------------------------------------------------
\* Piece movement rules (src/pieces.py)
\* ------------------------------------------------------------------------

\* destination test shared by every piece:
\* target_piece is None or target_piece.color != self.color
empty_or_enemy(board, self, end_row, end_col) ==
    LET target_piece == board[end_row][end_col] IN
    target_piece = None \/ target_piece.color # self.color

\* the smallest element of a non-empty set of integers
MinOf(S) == CHOOSE x \in S : \A y \in S : x <= y

\* The obstruction loops of the sliding pieces start at (row, col), one step
\* from the start square, and add the step on every iteration; iteration i
\* (from 0) looks at (row + i*row_step, col + i*col_step).  No loop runs more
\* than LoopSteps iterations: an index leaves -8..7 before that.
LoopSteps == 0..16

\* the outcome of a loop whose iteration i ends it: "clear" when the loop
\* condition fails, "IndexError" when board[row][col] is out of range,
\* "blocked" when the cell holds a piece
loop_outcome(board, row, col, running) ==
    IF ~running THEN "clear"
    ELSE IF ~(InRange(row) /\ InRange(col)) THEN "IndexError"
    ELSE IF Cell(board, row, col) # None THEN "blocked"
    ELSE "continue"

\* the loop of Rook.valid_moves and of the rook-like branch of
\* Queen.valid_moves: while (col != end_col or row != end_row)
straight_loop(board, row, col, row_step, col_step, end_row, end_col) ==
    LET at(i) == loop_outcome(board, row + i * row_step, col + i * col_step,
                              (col + i * col_step # end_col) \/ (row + i * row_step # end_row))
        ends == {i \in LoopSteps : at(i) # "continue"}
    IN at(MinOf(ends))

\* the loop of Bishop.valid_moves and of the bishop-like branch of
\* Queen.valid_moves: while (col != end_col and row != end_row)
diagonal_loop(board, row, col, row_step, col_step, end_row, end_col) ==
    LET at(i) == loop_outcome(board, row + i * row_step, col + i * col_step,
                              (col + i * col_step # end_col) /\ (row + i * row_step # end_row))
        ends == {i \in LoopSteps : at(i) # "continue"}
    IN at(MinOf(ends))

\* col_step / row_step of the rook-like movement
step_toward(start, end) == IF start < end THEN 1 ELSE IF start > end THEN -1 ELSE 0

\* col_step / row_step of the bishop-like movement: 1 if diff > 0 else -1
diag_step(diff) == IF diff > 0 THEN 1 ELSE -1

loop_result(path, board, self, end_row, end_col) ==
    CASE path = "IndexError" -> "IndexError"
      [] path = "blocked" -> "False"
      [] OTHER -> IF empty_or_enemy(board, self, end_row, end_col)
                  THEN "True" ELSE "False"

Rook_valid_moves(self, board, start_pos, end_pos) ==
    IF conversion_fails(start_pos, end_pos) THEN "False" ELSE
    LET s == position_to_indices(start_pos)
        e == position_to_indices(end_pos)
        start_row == s[1]
        start_col == s[2]
        end_row == e[1]
        end_col == e[2]
    IN IF start_row = end_row \/ start_col = end_col
       THEN LET col_step == step_toward(start_col, end_col)
                row_step == step_toward(start_row, end_row)
            IN loop_result(straight_loop(board, start_row + row_step, start_col + col_step,
                                         row_step, col_step, end_row, end_col),
                           board, self, end_row, end_col)
       ELSE "False"

Bishop_valid_moves(self, board, start_pos, end_pos) ==
    IF conversion_fails(start_pos, end_pos) THEN "False" ELSE
    LET s == position_to_indices(start_pos)
        e == position_to_indices(end_pos)
        start_row == s[1]
        start_col == s[2]
        end_row == e[1]
        end_col == e[2]
        col_diff == end_col - start_col
        row_diff == end_row - start_row
    IN IF Abs(col_diff) = Abs(row_diff)
       THEN LET col_step == diag_step(col_diff)
                row_step == diag_step(row_diff)
            IN loop_result(diagonal_loop(board, start_row + row_step, start_col + col_step,
                                         row_step, col_step, end_row, end_col),
                           board, self, end_row, end_col)
       ELSE "False"

Queen_valid_moves(self, board, start_pos, end_pos) ==
    IF conversion_fails(start_pos, end_pos) THEN "False" ELSE
    LET s == position_to_indices(start_pos)
        e == position_to_indices(end_pos)
        start_row == s[1]
        start_col == s[2]
        end_row == e[1]
        end_col == e[2]
        col_diff == end_col - start_col
        row_diff == end_row - start_row
    IN IF start_row = end_row \/ start_col = end_col
       THEN LET col_step == step_toward(start_col, end_col)
                row_step == step_toward(start_row, end_row)
            IN loop_result(straight_loop(board, start_row + row_step, start_col + col_step,
                                         row_step, col_step, end_row, end_col),
                           board, self, end_row, end_col)
       ELSE IF Abs(col_diff) = Abs(row_diff)
       THEN LET col_step == diag_step(col_diff)
                row_step == diag_step(row_diff)
            IN loop_result(diagonal_loop(board, start_row + row_step, start_col + col_step,
                                         row_step, col_step, end_row, end_col),
                           board, self, end_row, end_col)
       ELSE "False"

Knight_valid_moves(self, board, start_pos, end_pos) ==
    IF conversion_fails(start_pos, end_pos) THEN "False" ELSE
    LET s == position_to_indices(start_pos)
        e == position_to_indices(end_pos)
        col_diff == Abs(e[2] - s[2])
        row_diff == Abs(e[1] - s[1])
    IN IF ((col_diff = 2 /\ row_diff = 1) \/ (col_diff = 1 /\ row_diff = 2))
          /\ empty_or_enemy(board, self, e[1], e[2])
       THEN "True" ELSE "False"

\* Pawn.valid_moves line 372-375: the direction of advance, in rows
pawn_direction(color) == IF color = "white" THEN 1 ELSE -1

\* a variant of ep_two_rows that forgets the two-row test of line 411
ep_any_rows(last_start_row, last_end_row) == TRUE

\* Pawn.valid_moves line 411: the last move covered two rows
ep_two_rows(last_start_row, last_end_row) == Abs(last_end_row - last_start_row) = 2

\* Pawn.valid_moves line 413: the last-moved pawn stands beside this pawn, on
\* the file this pawn moves to
ep_adjacent(last_end_row, last_end_col, start_row, end_col) ==
    last_end_row = start_row /\ last_end_col = end_col

\* Pawn.valid_moves lines 402-415: the en passant branch; last_move is <<>>
\* for None and <<start_pos, end_pos>> otherwise
pawn_en_passant(self, board, start_row, end_col, last_move) ==
    IF last_move # <<>>
    THEN LET ls == position_to_indices(last_move[1])
             le == position_to_indices(last_move[2])
             last_moved_piece == board[le[1]][le[2]]
         IN /\ last_moved_piece.type = "Pawn"
            /\ last_moved_piece.color # self.color
            /\ ep_two_rows(ls[1], le[1])
            /\ ep_adjacent(le[1], le[2], start_row, end_col)
    ELSE FALSE

Pawn_valid_moves(self, board, start_pos, end_pos, last_move) ==
    IF conversion_fails(start_pos, end_pos) THEN "False" ELSE
    LET s == position_to_indices(start_pos)
        e == position_to_indices(end_pos)
        start_row == s[1]
        start_col == s[2]
        end_row == e[1]
        end_col == e[2]
        direction == pawn_direction(self.color)
        col_diff == end_col - start_col
        row_diff == end_row - start_row
    IN IF col_diff = 0
       THEN IF row_diff = direction
            THEN IF board[end_row][end_col] = None THEN "True" ELSE "False"
            ELSE IF row_diff = 2 * direction
            THEN IF ~self.has_moved
                 THEN LET intermediate_row == start_row + direction IN
                      IF ~InRange(intermediate_row) THEN "IndexError"
                      ELSE IF Cell(board, intermediate_row, start_col) = None
                              /\ board[end_row][end_col] = None
                      THEN "True" ELSE "False"
                 ELSE "False"
            ELSE "False"
       ELSE IF Abs(col_diff) = 1 /\ row_diff = direction
       THEN LET target_piece == board[end_row][end_col] IN
            IF target_piece # None /\ target_piece.color # self.color
            THEN "True"
            ELSE IF pawn_en_passant(self, board, start_row, end_col, last_move)
                 THEN "True" ELSE "False"
       ELSE "False"

\* ------------------------------------------------------------------------
\* King rules and attack detection (src/pieces.py, src/checked.py)
\* ------------------------------------------------------------------------

RECURSIVE is_square_attacked(_, _, _, _)

\* the cells of the board in the order of "for row in range(8): for col in
\* range(8)": cell k is (k \div 8, k % 8)
Cells == 0..63
RowOf(k) == k \div 8
ColOf(k) == k % 8

\* the cells of a board that hold a piece ("if piece:" in the scans)
OccupiedCells(b) == {cell \in Cells : b[RowOf(cell)][ColOf(cell)] # None}

\* "not result", where result is "True", "False" or the name of the exception
\* the call raised, which is passed on
negated(result) ==
    IF result = "True" THEN "False"
    ELSE IF result = "False" THEN "True"
    ELSE result

\* "if result: then" where the other branch gives False: then when result is
\* "True", else result itself ("False", or the exception the call raised)
when_true(result, then) == IF result = "True" THEN then ELSE result

\* the outcome of a loop that returns True at the first step whose call
\* returns True, and False when there is none: results[k] is what the call of
\* step k returns or raises ("False" for a step that makes no call), and the
\* first step whose call does not return False decides
first_decided(results) ==
    LET decided == {k \in DOMAIN results : results[k] # "False"}
    IN IF decided = {} THEN "False" ELSE results[MinOf(decided)]

\* the scan of checked.is_in_check (lines 50-58) and of game_logic.is_in_check
\* (lines 19-27) for the king of a color: the first one in scan order, <<>>
\* when there is none
find_king(board, color) ==
    LET kings == {k \in Cells : board[RowOf(k)][ColOf(k)].type = "King"
                                /\ board[RowOf(k)][ColOf(k)].color = color}
    IN IF kings = {} THEN <<>>
       ELSE indices_to_position(ColOf(MinOf(kings)), RowOf(MinOf(kings)))

\* checked.is_in_check, the version pieces.py imports
checked_is_in_check(board, color, last_move) ==
    LET king_position == find_king(board, color) IN
    IF king_position = <<>> THEN "True"
    ELSE is_square_attacked(board, king_position, color, last_move)

\* King.causes_self_check: the move is made on a copy of the rows (the piece
\* objects are shared and not written)
King_causes_self_check(self, board, start_pos, end_pos, last_move) ==
    LET s == position_to_indices(start_pos)
        e == position_to_indices(end_pos)
        piece == board[s[1]][s[2]]
        temp_board == [[board EXCEPT ![e[1]][e[2]] = piece] EXCEPT ![s[1]][s[2]] = None]
    IN checked_is_in_check(temp_board, self.color, last_move)

\* King.can_castle lines 96-99: for each column of the list, line 97 builds
\* pos = indices_to_position(start_row, col), that is with start_row in the
\* column parameter and col in the row parameter, and asks whether pos is
\* attacked; the first square that is (or a raise) decides
castle_squares_attacked(self, board, start_row, cols, last_move) ==
    first_decided([i \in 1..Len(cols) |->
                      is_square_attacked(board, indices_to_position(start_row, cols[i]),
                                         self.color, last_move)])

\* King.can_castle line 90: range(start_col + step, rook_col, step) is empty
castle_path_empty(board, start_row, start_col, rook_col, step) ==
    \A col \in Idx :
        ((step = 1 /\ col > start_col /\ col < rook_col)
         \/ (step = -1 /\ col < start_col /\ col > rook_col))
        => board[start_row][col] = None

\* King.can_castle lines 96: the squares tested for attacks
castle_checked_cols(start_col, step, end_col) == <<start_col, start_col + step, end_col>>

King_can_castle(self, board, start_pos, end_pos, last_move) ==
    IF self.has_moved THEN "False"
    ELSE LET s == position_to_indices(start_pos)
             e == position_to_indices(end_pos)
             start_row == s[1]
             start_col == s[2]
             end_row == e[1]
             end_col == e[2]
         IN IF start_row # end_row THEN "False"
            ELSE IF end_col # start_col + 2 /\ end_col # start_col - 2 THEN "False"
            ELSE LET rook_col == IF end_col = start_col + 2 THEN 7 ELSE 0
                     rook == board[start_row][rook_col]
                 IN IF rook.type # "Rook" \/ rook.color # self.color \/ rook.has_moved
                    THEN "False"
                    ELSE LET step == IF rook_col > start_col THEN 1 ELSE -1 IN
                         IF ~castle_path_empty(board, start_row, start_col, rook_col, step)
                         THEN "False"
                         ELSE negated(castle_squares_attacked(self, board, start_row,
                                          castle_checked_cols(start_col, step, end_col),
                                          last_move))

\* King.valid_moves called with all four arguments
King_valid_moves(self, board, start_pos, end_pos, last_move) ==
    IF conversion_fails(start_pos, end_pos) THEN "False" ELSE
    LET s == position_to_indices(start_pos)
        e == position_to_indices(end_pos)
        col_diff == e[2] - s[2]
        row_diff == e[1] - s[1]
    IN IF Max(Abs(col_diff), Abs(row_diff)) = 1
       THEN IF empty_or_enemy(board, self, e[1], e[2])
            THEN negated(King_causes_self_check(self, board, start_pos, end_pos,
                                                last_move))
            ELSE "False"
       ELSE IF row_diff = 0 /\ Abs(col_diff) = 2
       THEN King_can_castle(self, board, start_pos, end_pos, last_move)
       ELSE "False"

\* piece.valid_moves(board, start_pos, end_pos, last_move): the call with four
\* arguments, dispatched on the piece's class (checked.py lines 25-28)
valid_moves(piece, board, start_pos, end_pos, last_move) ==
    CASE piece.type = "King" -> King_valid_moves(piece, board, start_pos, end_pos, last_move)
      [] piece.type = "Queen" -> Queen_valid_moves(piece, board, start_pos, end_pos)
      [] piece.type = "Rook" -> Rook_valid_moves(piece, board, start_pos, end_pos)
      [] piece.type = "Bishop" -> Bishop_valid_moves(piece, board, start_pos, end_pos)
      [] piece.type = "Knight" -> Knight_valid_moves(piece, board, start_pos, end_pos)
      [] piece.type = "Pawn" -> Pawn_valid_moves(piece, board, start_pos, end_pos, last_move)

\* the loop of checked.is_square_attacked over the board, row by row: the
\* first opposing piece whose valid_moves returns True (or raises) decides
attacked_scan(board, pos, opponent_color, last_move) ==
    first_decided([k \in Cells |->
                      IF board[RowOf(k)][ColOf(k)].color = opponent_color
                      THEN valid_moves(board[RowOf(k)][ColOf(k)], board,
                                       indices_to_position(ColOf(k), RowOf(k)), pos,
                                       last_move)
                      ELSE "False"])

\* checked.is_square_attacked
is_square_attacked(board, pos, color, last_move) ==
    attacked_scan(board, pos, opponent(color), last_move)

\* ------------------------------------------------------------------------
\* Check detection, legal moves and game status (src/game_logic.py)
\* ------------------------------------------------------------------------

\* piece.valid_moves(board, start_pos, end_pos): the call with three
\* arguments.  Queen, Rook, Bishop and Knight declare last_move=None;
\* King.valid_moves and Pawn.valid_moves declare last_move without a default,
\* so the call raises TypeError for them.
valid_moves_without_last_move(piece, board, start_pos, end_pos) ==
    CASE piece.type \in {"King", "Pawn"} -> "TypeError"
      [] piece.type = "Queen" -> Queen_valid_moves(piece, board, start_pos, end_pos)
      [] piece.type = "Rook" -> Rook_valid_moves(piece, board, start_pos, end_pos)
      [] piece.type = "Bishop" -> Bishop_valid_moves(piece, board, start_pos, end_pos)
      [] piece.type = "Knight" -> Knight_valid_moves(piece, board, start_pos, end_pos)

\* the dispatch written out in is_in_check (lines 42-45), get_all_legal_moves
\* (lines 78-81) and move_piece (lines 159-162): a Pawn is called with
\* last_move, every other piece without it
is_valid_call(piece, board, start_pos, end_pos, last_move) ==
    IF piece.type = "Pawn"
    THEN Pawn_valid_moves(piece, board, start_pos, end_pos, last_move)
    ELSE valid_moves_without_last_move(piece, board, start_pos, end_pos)

\* the second loop of game_logic.is_in_check (lines 37-47): the first
\* opposing piece, in scan order, whose call returns True or raises decides
check_scan(board, king_position, opponent_color, last_move) ==
    first_decided([k \in Cells |->
                      IF board[RowOf(k)][ColOf(k)].color = opponent_color
                      THEN is_valid_call(board[RowOf(k)][ColOf(k)], board,
                                         indices_to_position(ColOf(k), RowOf(k)),
                                         king_position, last_move)
                      ELSE "False"])

\* a variant of is_in_check that reports no check when the king is absent
is_in_check_absent_false(board, color, last_move) ==
    LET king_position == find_king(board, color) IN
    IF king_position = <<>> THEN "False"
    ELSE check_scan(board, king_position, opponent(color), last_move)

\* game_logic.is_in_check, the version get_all_legal_moves and
\* check_game_status use
is_in_check(board, color, last_move) ==
    LET king_position == find_king(board, color) IN
    IF king_position = <<>> THEN "True"
    ELSE check_scan(board, king_position, opponent(color), last_move)

\* a variant of captured_row_of that takes the pawn from the destination's row
captured_row_of_destination(start_row, end_row) == end_row

\* move_piece line 175 and move_piece_simulation line 239: the row of the pawn
\* taken en passant
captured_row_of(start_row, end_row) == start_row

\* move_piece line 197 and move_piece_simulation line 250
promotion_row(color) == IF color = "white" THEN 0 ELSE 7

\* move_piece_simulation lines 245-257: the piece object after the call, with
\* its new position, and has_moved set unless it is a pawn that is promoted
piece_after_simulation(piece, end_pos) ==
    LET end_row == position_to_indices(end_pos)[1]
        promotes == piece.type = "Pawn" /\ end_row = promotion_row(piece.color)
    IN [piece EXCEPT !.position = end_pos,
                     !.has_moved = IF hasattr_has_moved(piece) /\ ~promotes
                                   THEN TRUE ELSE @]

\* game_logic.move_piece_simulation: the board after the call (the piece is
\* the object at start_pos of that board)
move_piece_simulation(board, piece, start_pos, end_pos, last_move) ==
    LET s == position_to_indices(start_pos)
        e == position_to_indices(end_pos)
        start_row == s[1]
        start_col == s[2]
        end_row == e[1]
        end_col == e[2]
        b1 == IF piece.type = "Pawn" /\ Abs(end_col - start_col) = 1
                 /\ board[end_row][end_col] = None
              THEN [board EXCEPT ![captured_row_of(start_row, end_row)][end_col] = None]
              ELSE board
        promotes == piece.type = "Pawn" /\ end_row = promotion_row(piece.color)
        moved == piece_after_simulation(piece, end_pos)
        placed == IF promotes
                  THEN Piece(64 + piece.id, "Queen", piece.color, end_pos)
                  ELSE moved
    IN [[b1 EXCEPT ![end_row][end_col] = placed] EXCEPT ![start_row][start_col] = None]

\* the result of get_all_legal_moves: exc is "None" when the call returns and
\* the exception's name when it raises; moves is the returned list (empty when
\* the call raises)
LegalResult(exc, moves) == [exc |-> exc, moves |-> moves]

\* a variant of simulate_on_copy that applies the move to the given board
simulate_in_place(board, piece, start_pos, end_pos, last_move) ==
    LET written == move_piece_simulation(board, piece, start_pos, end_pos, last_move)
    IN [given |-> written, copy |-> written]

\* board_copy = copy.deepcopy(board) followed by move_piece_simulation on
\* board_copy and its piece (get_all_legal_moves lines 84-88, minimax lines
\* 197-202 and 237-242, count_piece_mobility lines 124-128, MCTSNode.expand
\* lines 54-58): given is the board the caller holds after the two
\* statements, copy is the board that was written
simulate_on_copy(board, piece, start_pos, end_pos, last_move) ==
    [given |-> board,
     copy |-> move_piece_simulation(board, piece, start_pos, end_pos, last_move)]

\* What a call does to the board it was given is followed through the first
\* simulation the call makes: kind is "sim" when a simulation is made, and
\* given is then the board the first one leaves to the caller; kind is
\* "raise" when the call raises before it has simulated any move, and "none"
\* when it returns without having simulated any; given is then the board as
\* it was.  Every later simulation of the call is made by the same
\* statements.
FirstSimulation(kind, given) == [kind |-> kind, given |-> given]

\* the i-th (from 1) smallest element of a set of integers
NthOf(S, i) == CHOOSE x \in S : Cardinality({y \in S : y < x}) = i - 1

\* get_all_legal_moves lines 76-93 for the piece on cell k and the end square
\* on cell j: "False" when the move is not appended, "True" when it is, and
\* the exception's name when valid_moves or is_in_check raises
legal_move_step(board, color, last_move, k, j) ==
    LET piece == board[RowOf(k)][ColOf(k)]
        start_pos == indices_to_position(ColOf(k), RowOf(k))
        end_pos == indices_to_position(ColOf(j), RowOf(j))
        board_copy == simulate_on_copy(board, piece, start_pos, end_pos, last_move).copy
        simulated_last_move == <<start_pos, end_pos>>
    IN when_true(is_valid_call(piece, board, start_pos, end_pos, last_move),
                 negated(is_in_check(board_copy, color, simulated_last_move)))

\* get_all_legal_moves lines 72-81: the four nested loops visit the pairs
\* (cell k of an own piece, end cell j) in the order of 64*k + j.  The call
\* written for a King (line 81) raises whatever the squares are, so no step
\* is made after the first step of the first own king.
legal_steps(board, color) ==
    LET own == {k \in Cells : board[RowOf(k)][ColOf(k)].color = color}
        kings == {k \in own : board[RowOf(k)][ColOf(k)].type = "King"}
    IN {64 * k + j : k \in {c \in own : kings = {} \/ c < MinOf(kings)}, j \in Cells}
       \cup {64 * k : k \in {c \in kings : c = MinOf(kings)}}

\* the square pair of step n of get_all_legal_moves
step_move(n) ==
    <<indices_to_position(ColOf(n \div 64), RowOf(n \div 64)),
      indices_to_position(ColOf(n % 64), RowOf(n % 64))>>

\* what get_all_legal_moves returns or raises, given what each of its steps
\* did: the first step that raises ends the call, otherwise the appended moves
\* are returned in the order of their steps
collected_moves(results) ==
    LET raised == {n \in DOMAIN results : results[n] \notin {"True", "False"}}
        appended == {n \in DOMAIN results : results[n] = "True"}
    IN IF raised # {} THEN LegalResult(results[MinOf(raised)], <<>>)
       ELSE LegalResult("None",
                [i \in 1..Cardinality(appended) |-> step_move(NthOf(appended, i))])

\* game_logic.get_all_legal_moves
get_all_legal_moves(board, color, last_move) ==
    collected_moves([n \in legal_steps(board, color) |->
                        legal_move_step(board, color, last_move, n \div 64, n % 64)])

\* check_game_status lines 120-130, given what is_in_check and
\* get_all_legal_moves returned or raised
game_status(check, legal_moves, color) ==
    IF check \notin {"True", "False"} THEN <<check, "raised">>
    ELSE IF legal_moves.exc # "None" THEN <<legal_moves.exc, "raised">>
    ELSE IF legal_moves.moves = <<>>
    THEN IF check = "True"
         THEN <<"True", IF color = "white" THEN "black_win" ELSE "white_win">>
         ELSE <<"True", "draw">>
    ELSE <<"False", "None">>

\* game_logic.check_game_status: the returned pair (is_over, result) as
\* <<"True", "white_win">>, <<"True", "draw">>, <<"False", "None">>, or
\* <<exception name, "raised">> when the call raises
check_game_status(board, color, last_move) ==
    game_status(is_in_check(board, color, last_move),
                get_all_legal_moves(board, color, last_move), color)

\* ------------------------------------------------------------------------
\* Position evaluation (src/algorithm.py)
\* ------------------------------------------------------------------------

\* The evaluation adds piece values, bonuses and 0.1 per counted move.  The
\* model keeps every evaluation multiplied by ten, an integer, and adds
\* exactly where Python adds floating-point numbers: two evaluations that are
\* equal here can differ in Python by the rounding of the sums of 0.1.

\* PIECE_VALUES.get(type(piece).__name__, 0)
PIECE_VALUES(type) ==
    CASE type = "Pawn" -> 10
      [] type = "Knight" -> 30
      [] type = "Bishop" -> 30
      [] type = "Rook" -> 50
      [] type = "Queen" -> 90
      [] type = "King" -> 900
      [] OTHER -> 0

\* the sum of the values of a function over a finite subset of its domain
RECURSIVE SumFn(_, _)
SumFn(f, S) ==
    IF S = {} THEN 0
    ELSE LET x == CHOOSE y \in S : TRUE IN f[x] + SumFn(f, S \ {x})

\* is_king_under_attack lines 86-97, given the king's (row, col) and what
\* get_all_legal_moves returned or raised for the other colour
king_attacked_by(opponent_moves, king_position) ==
    IF opponent_moves.exc # "None" THEN opponent_moves.exc
    ELSE IF \E i \in 1..Len(opponent_moves.moves) :
               position_to_indices(opponent_moves.moves[i][2]) = king_position
    THEN "True" ELSE "False"

\* algorithm.is_king_under_attack: "True", "False", or the exception's name
\* when get_all_legal_moves raises.  The king is looked up by cell.
is_king_under_attack(board, color, last_move) ==
    LET kings == {k \in Cells : board[RowOf(k)][ColOf(k)].type = "King"
                                /\ board[RowOf(k)][ColOf(k)].color = color}
    IN IF kings = {} THEN "True"
       ELSE king_attacked_by(get_all_legal_moves(board, opponent(color), last_move),
                             <<RowOf(MinOf(kings)), ColOf(MinOf(kings))>>)

\* the piece object of (row, col) after a simulation that left it on its
\* cell: it holds the position and has_moved the simulation wrote
kept_on_cell(written, row, col, piece, end_pos) ==
    IF written[row][col].id = piece.id
    THEN [written EXCEPT ![row][col] = piece_after_simulation(piece, end_pos)]
    ELSE written

\* count_piece_mobility lines 123-128: the copy of the board after the move of
\* the piece on (row, col) from start_pos to end_pos has been simulated on it.
\* start_pos is the square indices_to_position(row, col) gives, so the cell
\* that is emptied need not be (row, col); the piece object then stays on
\* (row, col) as well.
mobility_copy(board, row, col, start_pos, end_pos, last_move) ==
    kept_on_cell(simulate_on_copy(board, board[row][col], start_pos, end_pos,
                                  last_move).copy,
                 row, col, board[row][col], end_pos)

\* count_piece_mobility lines 120-130 for the end square of loop step m
\* (end_row = m div 8, end_col = m mod 8, passed to indices_to_position in
\* that order): "True" when the move is counted, "False" when it is not, the
\* exception's name when valid_moves or is_king_under_attack raises
mobility_step(board, color, last_move, row, col, m) ==
    LET start_pos == indices_to_position(row, col)
        end_pos == indices_to_position(RowOf(m), ColOf(m))
    IN when_true(valid_moves(board[row][col], board, start_pos, end_pos, last_move),
                 negated(is_king_under_attack(
                             mobility_copy(board, row, col, start_pos, end_pos, last_move),
                             color, <<start_pos, end_pos>>)))

\* the result of count_piece_mobility: exc is "None" when the call returns
\* count, else the exception's name
MobilityResult(exc, count) == [exc |-> exc, count |-> count]

\* what count_piece_mobility returns or raises, given what each step of its
\* loop did
counted_moves(results) ==
    LET raised == {m \in DOMAIN results : results[m] \notin {"True", "False"}}
    IN IF raised # {} THEN MobilityResult(results[MinOf(raised)], 0)
       ELSE MobilityResult("None",
                Cardinality({m \in DOMAIN results : results[m] = "True"}))

\* algorithm.count_piece_mobility for the piece position (row, col)
count_piece_mobility(board, color, last_move, row, col) ==
    IF board[row][col] = None \/ board[row][col].color # color
    THEN MobilityResult("None", 0)
    ELSE counted_moves([m \in Cells |->
                           mobility_step(board, color, last_move, row, col, m)])

\* the first simulation of a loop over candidate moves: results[k] is what
\* the valid_moves call of step k returns or raises, givens[k] the board the
\* simulation of step k leaves to the caller.  The first step whose call does
\* not return False raises or makes the first simulation.
first_simulation(results, givens, board) ==
    LET begun == {k \in DOMAIN results : results[k] # "False"}
    IN IF begun = {} THEN FirstSimulation("none", board)
       ELSE IF results[MinOf(begun)] # "True" THEN FirstSimulation("raise", board)
       ELSE FirstSimulation("sim", givens[MinOf(begun)])

\* the first simulation of count_piece_mobility: that of the first end
\* square for which valid_moves returns True, if no earlier call raises
count_piece_mobility_first(board, color, last_move, row, col) ==
    IF board[row][col] = None \/ board[row][col].color # color
    THEN FirstSimulation("none", board)
    ELSE first_simulation(
             [m \in Cells |->
                 valid_moves(board[row][col], board, indices_to_position(row, col),
                             indices_to_position(RowOf(m), ColOf(m)), last_move)],
             [m \in Cells |->
                 simulate_on_copy(board, board[row][col], indices_to_position(row, col),
                                  indices_to_position(RowOf(m), ColOf(m)),
                                  last_move).given],
             board)

\* the result of evaluate_board: exc is "None" when the call returns, value
\* is ten times the returned number
EvalResult(exc, value) == [exc |-> exc, value |-> value]

\* the first simulation of get_all_legal_moves: that of the first step whose
\* valid_moves call returns True, if no earlier call raises
get_all_legal_moves_first(board, color, last_move) ==
    first_simulation(
        [n \in legal_steps(board, color) |->
            is_valid_call(board[RowOf(n \div 64)][ColOf(n \div 64)], board,
                          step_move(n)[1], step_move(n)[2], last_move)],
        [n \in legal_steps(board, color) |->
            simulate_on_copy(board, board[RowOf(n \div 64)][ColOf(n \div 64)],
                             step_move(n)[1], step_move(n)[2], last_move).given],
        board)

\* evaluate_board lines 45-59, given what is_king_under_attack and
\* count_piece_mobility returned or raised: material is ten times the piece
\* value and the centre bonus, sign is 1 for a piece of color and -1 for a
\* piece of the other colour
evaluated_piece(attacked, mobility, material, sign) ==
    IF attacked \notin {"True", "False"} THEN EvalResult(attacked, 0)
    ELSE IF mobility.exc # "None" THEN EvalResult(mobility.exc, 0)
    ELSE EvalResult("None",
             sign * (material - (IF attacked = "True" THEN 500 ELSE 0) + mobility.count))

\* the bonus of evaluate_board lines 41-43 for a piece on the four centre
\* squares
center_bonus(row, col) ==
    IF <<row, col>> \in {<<3, 3>>, <<3, 4>>, <<4, 3>>, <<4, 4>>} THEN 5 ELSE 0

\* evaluate_board lines 37-59 for the piece on cell k
evaluate_piece(board, color, last_move, k) ==
    evaluated_piece(
        IF board[RowOf(k)][ColOf(k)].type = "King"
        THEN is_king_under_attack(board, color, last_move)
        ELSE "False",
        count_piece_mobility(board, color, last_move, RowOf(k), ColOf(k)),
        10 * PIECE_VALUES(board[RowOf(k)][ColOf(k)].type)
            + 10 * center_bonus(RowOf(k), ColOf(k)),
        IF board[RowOf(k)][ColOf(k)].color = color THEN 1 ELSE -1)

\* what an evaluation returns or raises, given what the step of each piece
\* did: the first piece whose step raises ends the call, otherwise the
\* values are added
evaluated_board(results) ==
    LET raised == {k \in DOMAIN results : results[k].exc # "None"}
    IN IF raised # {} THEN EvalResult(results[MinOf(raised)].exc, 0)
       ELSE EvalResult("None",
                SumFn([k \in DOMAIN results |-> results[k].value], DOMAIN results))

\* algorithm.evaluate_board: the pieces are visited in the order of their
\* cells
evaluate_board(board, color, last_move) ==
    evaluated_board([k \in OccupiedCells(board) |->
                        evaluate_piece(board, color, last_move, k)])

\* the first of the parts of a call, in their order, that simulates a move
\* or raises
first_of_parts(parts, board) ==
    LET begun == {i \in DOMAIN parts : parts[i].kind # "none"}
    IN IF begun = {} THEN FirstSimulation("none", board) ELSE parts[MinOf(begun)]

\* the first simulation of evaluate_board: for each piece in the order of the
\* cells (part 2k and part 2k + 1 for cell k), that of is_king_under_attack
\* (made by get_all_legal_moves for the other colour, when the piece is a
\* king and a king of color is found) and then that of count_piece_mobility
evaluate_board_first(board, color, last_move) ==
    first_of_parts(
        [i \in {2 * k + p : k \in OccupiedCells(board), p \in {0, 1}} |->
            IF i % 2 = 0
            THEN IF board[RowOf(i \div 2)][ColOf(i \div 2)].type = "King"
                    /\ \E c \in Cells : /\ board[RowOf(c)][ColOf(c)].type = "King"
                                        /\ board[RowOf(c)][ColOf(c)].color = color
                 THEN get_all_legal_moves_first(board, opponent(color), last_move)
                 ELSE FirstSimulation("none", board)
            ELSE count_piece_mobility_first(board, color, last_move,
                                            RowOf(i \div 2), ColOf(i \div 2))],
        board)

\* algorithm.evaluate_move_loss(piece, captured_piece): the priority of its
\* first argument
evaluate_move_loss(piece, captured_piece) ==
    CASE piece.type = "Pawn" -> 1
      [] piece.type = "Knight" -> 2
      [] piece.type = "Bishop" -> 2
      [] piece.type = "Rook" -> 3
      [] piece.type = "Queen" -> 4
      [] piece.type = "King" -> 5
      [] OTHER -> 0

\* ------------------------------------------------------------------------
\* Minimax search (src/algorithm.py)
\* ------------------------------------------------------------------------

\* float('inf') on the scale of the evaluations of the model: larger than
\* the absolute value of every evaluation
inf == 1000000000

Min(x, y) == IF x < y THEN x ELSE y

\* the result of minimax: exc is "None" when the call returns (evaluation,
\* move), else the exception's name; evaluation is ten times the returned
\* number; move is <<>> for None; examined is the number of legal moves its
\* loop has simulated
MinimaxResult(exc, evaluation, move, examined) ==
    [exc |-> exc, evaluation |-> evaluation, move |-> move, examined |-> examined]

\* an element of best_moves: (move, PIECE_VALUES of the captured piece or 0)
BestMove(move, captured_piece) ==
    [move |-> move,
     captured |-> IF captured_piece # None THEN PIECE_VALUES(captured_piece.type) ELSE 0]

\* lines 224-230 and 264-270: best_moves.sort by the captured value, largest
\* first for the maximizing player and smallest first for the other, and
\* the move of the first element; the sort is stable
selected_move(best_moves, maximizing_player) ==
    LET better(x, y) == IF maximizing_player THEN x > y ELSE x < y
        firsts == {i \in 1..Len(best_moves) :
                     \A j \in 1..Len(best_moves) :
                         /\ ~better(best_moves[j].captured, best_moves[i].captured)
                         /\ (best_moves[j].captured = best_moves[i].captured => i <= j)}
    IN best_moves[MinOf(firsts)].move

RECURSIVE minimax(_, _, _, _, _, _, _)
RECURSIVE minimax_loop(_, _, _, _, _, _, _, _, _, _)

\* lines 208-222 (248-262) for a move whose recursive call has returned
\* child_evaluation: max_eval or min_eval (best_eval), best_moves, alpha and
\* beta after the move, and whether beta <= alpha
move_examined(child_evaluation, move, piece, captured_piece, alpha, beta, maximizing_player, best_eval, best_moves) ==
    LET loss_value == IF captured_piece # None
                      THEN evaluate_move_loss(captured_piece, piece)
                      ELSE 0
        evaluation == IF maximizing_player
                      THEN child_evaluation - loss_value * 10 * 10
                      ELSE child_evaluation + loss_value * 10 * 10
        improves == IF maximizing_player THEN evaluation > best_eval
                                         ELSE evaluation < best_eval
        new_alpha == IF maximizing_player THEN Max(alpha, evaluation) ELSE alpha
        new_beta == IF maximizing_player THEN beta ELSE Min(beta, evaluation)
    IN [best_eval |-> IF improves THEN evaluation ELSE best_eval,
        best_moves |-> IF improves THEN <<BestMove(move, captured_piece)>>
                       ELSE IF evaluation = best_eval
                       THEN Append(best_moves, BestMove(move, captured_piece))
                       ELSE best_moves,
        alpha |-> new_alpha,
        beta |-> new_beta,
        cut |-> new_beta <= new_alpha]

\* lines 221-230 (261-270) after the i-th legal move: the loop breaks and the
\* selected move is returned, or the loop goes on
minimax_continued(examined, board, depth, maximizing_player, last_move, legal_moves, i) ==
    IF examined.cut
    THEN MinimaxResult("None", examined.best_eval,
                       selected_move(examined.best_moves, maximizing_player), i)
    ELSE minimax_loop(board, depth, examined.alpha, examined.beta, maximizing_player,
                      last_move, legal_moves, i + 1, examined.best_eval,
                      examined.best_moves)

\* lines 203-222 (234-262 for the minimizing player) for the i-th legal
\* move, given what the recursive call returned or raised
minimax_step(child, board, depth, alpha, beta, maximizing_player, last_move, legal_moves, i, best_eval, best_moves) ==
    IF child.exc # "None" THEN MinimaxResult(child.exc, 0, <<>>, i)
    ELSE minimax_continued(
             move_examined(child.evaluation, legal_moves[i],
                           board[position_to_indices(legal_moves[i][1])[1]]
                                [position_to_indices(legal_moves[i][1])[2]],
                           board[position_to_indices(legal_moves[i][2])[1]]
                                [position_to_indices(legal_moves[i][2])[2]],
                           alpha, beta, maximizing_player, best_eval, best_moves),
             board, depth, maximizing_player, last_move, legal_moves, i)

\* lines 197-202 (237-242): the board copy on which the move has been
\* simulated
minimax_copy(board, move, last_move) ==
    simulate_on_copy(board,
                     board[position_to_indices(move[1])[1]]
                          [position_to_indices(move[1])[2]],
                     move[1], move[2], last_move).copy

\* lines 206 and 246: the depth, maximizing_player, current_color and
\* last_move of the recursive call for the simulated move
child_call(depth, maximizing_player, move) ==
    [depth |-> depth - 1,
     maximizing_player |-> IF maximizing_player THEN FALSE ELSE TRUE,
     current_color |-> IF maximizing_player THEN "white" ELSE "black",
     last_move |-> move]

\* lines 206 and 246: the recursive call on new_board
minimax_called(call, new_board, alpha, beta) ==
    minimax(new_board, call.depth, alpha, beta, call.maximizing_player,
            call.current_color, call.last_move)

\* the loop over legal_moves of minimax (lines 194-222 for the maximizing
\* player, lines 234-262 for the other) from the i-th move on; best_eval is
\* max_eval or min_eval
minimax_loop(board, depth, alpha, beta, maximizing_player, last_move, legal_moves, i, best_eval, best_moves) ==
    IF i > Len(legal_moves)
    THEN MinimaxResult("None", best_eval,
                       selected_move(best_moves, maximizing_player), i - 1)
    ELSE minimax_step(
             minimax_called(child_call(depth, maximizing_player, legal_moves[i]),
                            minimax_copy(board, legal_moves[i], last_move), alpha, beta),
             board, depth, alpha, beta, maximizing_player, last_move, legal_moves, i,
             best_eval, best_moves)

\* minimax lines 180-182 and 190-192: (evaluate_board(board, 'black',
\* last_move), None), or the exception evaluate_board raises
evaluated_position(evaluation) ==
    MinimaxResult(evaluation.exc, evaluation.value, <<>>, 0)

\* minimax lines 178-270, given what check_game_status and get_all_legal_moves
\* returned or raised and what the evaluation of the position gives
minimax_body(status, legal_moves, leaf, board, depth, alpha, beta, maximizing_player, last_move) ==
    IF status[2] = "raised" THEN MinimaxResult(status[1], 0, <<>>, 0)
    ELSE IF depth = 0 \/ status[1] = "True" THEN leaf
    ELSE IF legal_moves.exc # "None" THEN MinimaxResult(legal_moves.exc, 0, <<>>, 0)
    ELSE IF legal_moves.moves = <<>> THEN leaf
    ELSE minimax_loop(board, depth, alpha, beta, maximizing_player, last_move,
                      legal_moves.moves, 1,
                      IF maximizing_player THEN -inf ELSE inf, <<>>)

\* algorithm.minimax
minimax(board, depth, alpha, beta, maximizing_player, current_color, last_move) ==
    minimax_body(check_game_status(board, current_color, last_move),
                 get_all_legal_moves(board, current_color, last_move),
                 evaluated_position(evaluate_board(board, "black", last_move)),
                 board, depth, alpha, beta, maximizing_player, last_move)

\* the first simulation of minimax: that of check_game_status (line 178),
\* which get_all_legal_moves makes when is_in_check has returned; when
\* get_all_legal_moves simulates nothing it returns the empty list, the game
\* is over, and the first simulation is that of evaluate_board (line 181)
minimax_first(board, depth, alpha, beta, maximizing_player, current_color, last_move) ==
    IF is_in_check(board, current_color, last_move) \notin {"True", "False"}
    THEN FirstSimulation("raise", board)
    ELSE first_of_parts(
             [i \in 1..2 |->
                 IF i = 1 THEN get_all_legal_moves_first(board, current_color, last_move)
                 ELSE evaluate_board_first(board, "black", last_move)],
             board)

\* the result of iterative_deepening: exc is "None" when the call returns
\* move (<<>> for None), else the exception's name
DeepeningResult(exc, move) == [exc |-> exc, move |-> move]

RECURSIVE deepening_loop(_, _, _, _, _, _, _)

\* iterative_deepening lines 301-311 for one depth, given what minimax
\* returned or raised: the move replaces best_move unless it is None (lines
\* 301-302), and the loop ends when the time is up (lines 306-311)
deepening_step(result, board, color, last_move, max_depth, stop_depth, depth, best_move) ==
    IF result.exc # "None" THEN DeepeningResult(result.exc, <<>>)
    ELSE IF depth = stop_depth
    THEN DeepeningResult("None", IF result.move # <<>> THEN result.move ELSE best_move)
    ELSE deepening_loop(board, color, last_move, max_depth, stop_depth, depth + 1,
                        IF result.move # <<>> THEN result.move ELSE best_move)

\* the loop of iterative_deepening from depth on; stop_depth is the depth
\* after whose search the elapsed time has reached time_limit, 0 when no
\* time_limit is given or it is not reached
deepening_loop(board, color, last_move, max_depth, stop_depth, depth, best_move) ==
    IF depth > max_depth THEN DeepeningResult("None", best_move)
    ELSE deepening_step(minimax(board, depth, -inf, inf, color = "black", color,
                                last_move),
                        board, color, last_move, max_depth, stop_depth, depth,
                        best_move)

\* algorithm.iterative_deepening
iterative_deepening(board, color, last_move, max_depth, stop_depth) ==
    deepening_loop(board, color, last_move, max_depth, stop_depth, 1, <<>>)

\* the first simulation of iterative_deepening: that of its first call of
\* minimax
iterative_deepening_first(board, color, last_move, max_depth, stop_depth) ==
    minimax_first(board, 1, -inf, inf, color = "black", color, last_move)

\* ------------------------------------------------------------------------
\* Monte Carlo tree search (src/monte_carlo_algo.py)
\* ------------------------------------------------------------------------

\* monte_carlo_algo.is_king_under_attack and count_piece_mobility are the
\* functions of the same names of algorithm.py, statement for statement.

\* monte_carlo_algo.is_passed_pawn(board, color, (row, col))
is_passed_pawn(board, color, row, col) ==
    LET direction == IF color = "white" THEN 1 ELSE -1
        rows == IF color = "white" THEN {r \in 0..7 : r >= row + direction}
                ELSE {r \in 0..7 : r <= row + direction}
    IN ~\E file_offset \in {-1, 0, 1} :
          /\ col + file_offset \in 0..7
          /\ \E check_row \in rows :
                /\ board[check_row][col + file_offset].type = "Pawn"
                /\ board[check_row][col + file_offset].color = opponent(color)

\* evaluate_board_with_domain_knowledge lines 262-277, given what
\* is_king_under_attack and count_piece_mobility returned or raised: material
\* is ten times the piece value, the centre bonus and the passed pawn bonus,
\* weight is ten times the bonus of one counted move
domain_knowledge_value(attacked, mobility, material, weight, sign) ==
    IF attacked \notin {"True", "False"} THEN EvalResult(attacked, 0)
    ELSE IF mobility.exc # "None" THEN EvalResult(mobility.exc, 0)
    ELSE EvalResult("None",
             sign * (material - (IF attacked = "True" THEN 500 ELSE 0)
                     + weight * mobility.count))

\* evaluate_board_with_domain_knowledge lines 244-277 for the piece on cell k,
\* ten times the amount added to total_score
domain_knowledge_piece(board, color, last_move, k) ==
    domain_knowledge_value(
        IF board[RowOf(k)][ColOf(k)].type = "King"
        THEN is_king_under_attack(board, board[RowOf(k)][ColOf(k)].color, last_move)
        ELSE "False",
        count_piece_mobility(board, board[RowOf(k)][ColOf(k)].color, last_move,
                             RowOf(k), ColOf(k)),
        10 * PIECE_VALUES(board[RowOf(k)][ColOf(k)].type)
            + 10 * center_bonus(RowOf(k), ColOf(k))
            + (IF board[RowOf(k)][ColOf(k)].type = "Pawn"
                  /\ is_passed_pawn(board, board[RowOf(k)][ColOf(k)].color,
                                    RowOf(k), ColOf(k))
               THEN 200 ELSE 0),
        IF board[RowOf(k)][ColOf(k)].type = "Pawn" THEN 1 ELSE 2,
        IF board[RowOf(k)][ColOf(k)].color = color THEN 1 ELSE -1)

\* monte_carlo_algo.evaluate_board_with_domain_knowledge
evaluate_board_with_domain_knowledge(board, color, last_move) ==
    evaluated_board([k \in OccupiedCells(board) |->
                        domain_knowledge_piece(board, color, last_move, k)])

\* MCTSNode.__init__: a node of the tree.  The tree is the sequence of its
\* nodes in the order of their creation, the root first; parent is the index
\* of the parent (0 for None), move is <<>> for None, and node.children is
\* the nodes whose parent is the node.  wins holds a hundred times the sum
\* Python holds.
MCTSNode(board, color, last_move, parent, move) ==
    [board |-> board, color |-> color, last_move |-> last_move,
     parent |-> parent, move |-> move, visits |-> 0, wins |-> 0]

\* node.children of node n
children(tree, n) == {c \in 1..Len(tree) : tree[c].parent = n}

\* line 32, given what get_all_legal_moves returned or raised
fully_expanded(legal_moves, n_children) ==
    IF legal_moves.exc # "None" THEN legal_moves.exc
    ELSE IF n_children = Len(legal_moves.moves) THEN "True"
    ELSE "False"

\* MCTSNode.is_fully_expanded: "True", "False", or the exception's name when
\* get_all_legal_moves raises
is_fully_expanded(tree, n) ==
    fully_expanded(get_all_legal_moves(tree[n].board, tree[n].color, tree[n].last_move),
                   Cardinality(children(tree, n)))

\* the result of the selection: the node it ends on, or the exception
Selection(exc, node) == [exc |-> exc, node |-> node]

RECURSIVE selection(_, _)

\* mcts line 304 for node n, given what is_fully_expanded returned or raised.
\* best_child (lines 34-44) takes the child with the largest UCB1 value, a
\* floating-point number; the model lets the selection follow any child.
selection_step(full, tree, n) ==
    IF full \notin {"True", "False"} THEN {Selection(full, n)}
    ELSE IF full = "True" /\ children(tree, n) # {}
    THEN UNION {selection(tree, c) : c \in children(tree, n)}
    ELSE {Selection("None", n)}

\* mcts lines 303-305: the nodes the selection can end on from node n
selection(tree, n) == selection_step(is_fully_expanded(tree, n), tree, n)

\* the result of expand: the tree after the call and the index of the
\* returned node (0 for None)
Expansion(tree, node) == [tree |-> tree, node |-> node]

\* expand lines 51-65, given the list get_all_legal_moves returned: the first
\* legal move that no child has is simulated on a deep copy of the node's
\* board and the child is appended
expanded_by(legal_moves, tree, n) ==
    LET fresh == {i \in 1..Len(legal_moves) :
                     ~\E c \in children(tree, n) : tree[c].move = legal_moves[i]}
        move == legal_moves[MinOf(fresh)]
        s == position_to_indices(move[1])
    IN IF fresh = {} THEN Expansion(tree, 0)
       ELSE Expansion(
                Append(tree,
                       MCTSNode(simulate_on_copy(tree[n].board,
                                                 tree[n].board[s[1]][s[2]],
                                                 move[1], move[2],
                                                 tree[n].last_move).copy,
                                opponent(tree[n].color), move, n, move)),
                Len(tree) + 1)

\* MCTSNode.expand for node n, when get_all_legal_moves returns
expand(tree, n) ==
    expanded_by(get_all_legal_moves(tree[n].board, tree[n].color,
                                    tree[n].last_move).moves,
                tree, n)

\* simulate_once lines 114-126 for the move random.choice has taken: the
\* move is simulated on the playout's copy and the position is evaluated for
\* the other colour
playout_score(board, color, last_move, move) ==
    evaluate_board_with_domain_knowledge(
        simulate_on_copy(board,
                         board[position_to_indices(move[1])[1]]
                              [position_to_indices(move[1])[2]],
                         move[1], move[2], last_move).copy,
        opponent(color), move)

\* simulate_once lines 99-126, given what check_game_status and
\* get_all_legal_moves returned or raised
playouts(status, legal_moves, board, color, last_move) ==
    IF status[2] = "raised" THEN {EvalResult(status[1], 0)}
    ELSE IF status[1] = "True"
    THEN {EvalResult("None", IF status[2] = color THEN 10000
                             ELSE IF status[2] = "draw" THEN 0
                             ELSE -10000)}
    ELSE IF legal_moves.exc # "None" THEN {EvalResult(legal_moves.exc, 0)}
    ELSE IF legal_moves.moves = <<>> THEN {EvalResult("None", -10000)}
    ELSE {playout_score(board, color, last_move, legal_moves.moves[i])
          : i \in 1..Len(legal_moves.moves)}

\* MCTSNode.simulate_once on a deep copy of the node's board: the results the
\* call can have, one for each move random.choice can take.  value is ten
\* times the returned number.
simulate_once(board, color, last_move) ==
    playouts(check_game_status(board, color, last_move),
             get_all_legal_moves(board, color, last_move), board, color, last_move)

\* the number of playouts of one iteration (mcts line 313)
n_simulations == 10

\* a variant of visits_after_backpropagate that takes a visit away
visits_taken_away(visits) == visits - 1

\* backpropagate line 132: self.visits += 1
visits_after_backpropagate(visits) == visits + 1

\* MCTSNode.backpropagate from node n; result is a hundred times Python's,
\* so that 1 - result is 100 - result here
RECURSIVE backpropagate(_, _, _)
backpropagate(tree, n, result) ==
    LET updated == [tree EXCEPT ![n].visits = visits_after_backpropagate(@),
                                ![n].wins = @ + result]
    IN IF tree[n].parent # 0
       THEN backpropagate(updated, tree[n].parent,
                          IF tree[n].color # tree[tree[n].parent].color
                          THEN 100 - result ELSE result)
       ELSE updated

\* the state of node.simulate_parallel (lines 76-88): the node (0 when no
\* call runs), the playouts not yet started, those that have made their copy
\* of the node's board (line 94) and those that have returned; total is the
\* sum of the returned results, each ten times Python's, and exc the
\* exception of the first playout that raised.  The ten playouts run the
\* same code on the same node, so the threads are counted, not named.
Playouts(node, queued, running, returned, total, exc) ==
    [node |-> node, queued |-> queued, running |-> running, returned |-> returned,
     total |-> total, exc |-> exc]

NoPlayouts == Playouts(0, 0, 0, 0, 0, "None")

\* a variant of node_after_playout in which the playout counts its own
\* result on the node
node_counted_by_playout(node, result) ==
    [node EXCEPT !.visits = @ + 1, !.wins = @ + result]

\* simulate_once lines 90-126 assign to no attribute of self and to no cell
\* of self.board: the node after a playout on it has returned result
node_after_playout(node, result) == node

\* the playouts after one of them has returned or raised r
playout_returned(pool, r) ==
    [pool EXCEPT !.running = @ - 1,
                     !.returned = @ + 1,
                     !.total = IF r.exc = "None" THEN @ + r.value ELSE @,
                     !.exc = IF @ = "None" THEN r.exc ELSE @]

\* the result of the selection and the expansion of one pass: the exception
\* that ends the call, or the tree and the node to simulate (0 for None)
Selected(exc, tree, node) == [exc |-> exc, tree |-> tree, node |-> node]

\* mcts lines 308-309 for the node the selection has ended on, given what
\* is_fully_expanded returns there
expanded(full, tree, n) ==
    {Selected("None", e.tree, e.node)
     : e \in {IF full = "False" THEN expand(tree, n) ELSE Expansion(tree, n)}}

\* mcts lines 302-309, the selection and the expansion of one pass of the
\* loop: the results they can have
mcts_selected(tree) ==
    UNION {IF sel.exc # "None" THEN {Selected(sel.exc, tree, 0)}
           ELSE expanded(is_fully_expanded(tree, sel.node), tree, sel.node)
           : sel \in selection(tree, 1)}

\* the first simulation of an iteration of mcts: that of the root's
\* is_fully_expanded.  When get_all_legal_moves simulates nothing there it
\* returns an empty list, the selection stays on the root, and the playouts
\* find the game over on their copies without simulating a move either.
mcts_iteration_first(tree) ==
    get_all_legal_moves_first(tree[1].board, tree[1].color, tree[1].last_move)

\* mcts lines 321-322: root_node.best_child(exploration_weight=0).move, the
\* moves the call can return (<<>> for None).  The child with the largest
\* wins / (visits + 1e-6) is taken; the model lets every child be taken whose
\* wins / visits is largest, a child without visits included.
mcts_best_moves(tree) ==
    LET root_children == children(tree, 1)
        at_least(a, b) == \/ tree[a].visits = 0
                          \/ /\ tree[b].visits > 0
                             /\ tree[a].wins * tree[b].visits >= tree[b].wins * tree[a].visits
    IN IF root_children = {} THEN {<<>>}
       ELSE {tree[a].move : a \in {c \in root_children :
                                      \A b \in root_children : at_least(c, b)}}

\* ------------------------------------------------------------------------
\* Applying a move (src/game_logic.py, move_piece)
\* ------------------------------------------------------------------------

\* Pawn.promote_pawn: the piece the player chooses at the prompt, a new object
PromotionChoices == {"Queen", "Rook", "Bishop", "Knight"}
promote_pawn(self, choice, color, end_pos) ==
    Piece(64 + self.id, choice, color, end_pos)

\* what move_piece leaves in the origin cell
start_cell_kept(piece) == piece
\* line 192: board[start_row][start_col] = None
start_cell_after_move(piece) == None

\* the result of move_piece: ret is "True" or "False" for the returned value
\* and the exception's name when the call raises; board is the board after
\* the call; en_passant is the square printed by line 181, <<>> if none
MoveResult(ret, board, en_passant) == [ret |-> ret, board |-> board, en_passant |-> en_passant]

\* game_logic.move_piece; choice is the answer given to promote_pawn's prompt.
\* utils.get_piece_info (lines 37-41) catches the ValueError of start_pos and
\* answers (None, None), which move_piece reports as an empty origin.
move_piece(board, start_pos, end_pos, last_move, choice) ==
    IF position_to_indices_raises(start_pos) = "ValueError"
    THEN MoveResult("False", board, <<>>) ELSE
    LET s == position_to_indices(start_pos)
        start_row == s[1]
        start_col == s[2]
        piece == board[start_row][start_col]
    IN IF piece = None THEN MoveResult("False", board, <<>>)
       ELSE LET is_valid == is_valid_call(piece, board, start_pos, end_pos, last_move) IN
            IF is_valid = "False" THEN MoveResult("False", board, <<>>)
            ELSE IF is_valid # "True" THEN MoveResult(is_valid, board, <<>>)
            ELSE LET e == position_to_indices(end_pos)
                     end_row == e[1]
                     end_col == e[2]
                     target_piece == board[end_row][end_col]
                     captured_row == captured_row_of(start_row, end_row)
                     captured_pawn == board[captured_row][end_col]
                     takes_en_passant ==
                         /\ piece.type = "Pawn"
                         /\ Abs(end_col - start_col) = 1
                         /\ board[end_row][end_col] = None
                         /\ captured_pawn.type = "Pawn"
                         /\ captured_pawn.color # piece.color
                     b1 == IF takes_en_passant
                           THEN [board EXCEPT ![captured_row][end_col] = None]
                           ELSE board
                     printed == IF takes_en_passant
                                THEN indices_to_position(end_col, captured_row)
                                ELSE <<>>
                 IN IF target_piece # None /\ target_piece.color = piece.color
                    THEN MoveResult("False", b1, printed)
                    ELSE LET promotes == piece.type = "Pawn"
                                         /\ end_row = promotion_row(piece.color)
                             moved == [piece EXCEPT
                                         !.position = end_pos,
                                         !.has_moved = IF hasattr_has_moved(piece) /\ ~promotes
                                                       THEN TRUE ELSE @]
                             placed == IF promotes
                                       THEN promote_pawn(piece, choice, piece.color,
                                                         end_pos)
                                       ELSE moved
                         IN MoveResult("True",
                                [[b1 EXCEPT ![end_row][end_col] = placed]
                                     EXCEPT ![start_row][start_col] =
                                                start_cell_after_move(piece)],
                                printed)

\* utils.get_piece_info: the colour of the piece on a square, "none" if empty
piece_color_at(board, position) ==
    LET i == position_to_indices(position) IN board[i[1]][i[2]].color

\* ------------------------------------------------------------------------
\* The game: the moves the two players enter
\* ------------------------------------------------------------------------

Sq(str_file, str_rank) == <<str_file, str_rank>>
Mv(f1, r1, f2, r2) == <<Sq(f1, r1), Sq(f2, r2)>>

\* The squares the players click are drawn from the moves of one of a few
\* study lines; a line fixes the set of inputs, not their order.
Lines == {"fools_mate", "en_passant", "castling", "castling_both", "promotion",
          "king_capture"}

LineMoves(l) ==
    CASE l = "fools_mate" ->
           { Mv("f","2","f","3"), Mv("g","2","g","4"), Mv("a","2","a","3"),
             Mv("e","1","f","2"), Mv("g","1","h","3"),
             Mv("e","7","e","5"), Mv("d","8","h","4"), Mv("h","4","e","1"),
             Mv("a","7","a","6") }
      [] l = "en_passant" ->
           { Mv("e","2","e","4"), Mv("e","4","e","5"), Mv("e","5","d","6"),
             Mv("e","5","f","6"), Mv("h","2","h","3"), Mv("c","2","c","4"),
             Mv("d","7","d","5"), Mv("d","7","d","6"), Mv("d","6","d","5"),
             Mv("f","7","f","5"), Mv("h","7","h","6"), Mv("d","5","d","4"),
             Mv("d","4","c","3"), Mv("d","4","e","3") }
      [] l = "castling" ->
           { Mv("g","1","f","3"), Mv("g","2","g","4"), Mv("f","1","g","2"),
             Mv("e","1","g","1"), Mv("h","2","h","3"), Mv("h","3","h","4"),
             Mv("h","1","g","1"), Mv("g","1","h","1"),
             Mv("b","8","a","6"), Mv("d","7","d","5"), Mv("d","5","d","4"),
             Mv("d","4","d","3"), Mv("d","3","e","2") }
      [] l = "castling_both" ->
           { Mv("g","1","f","3"), Mv("g","2","g","4"), Mv("f","1","g","2"),
             Mv("b","1","c","3"), Mv("d","2","d","3"), Mv("c","1","e","3"),
             Mv("d","1","d","2"), Mv("e","1","g","1"), Mv("e","1","c","1"),
             Mv("b","8","a","6"), Mv("h","7","h","6"), Mv("h","6","h","5"),
             Mv("h","5","h","4"), Mv("h","4","h","3"), Mv("g","7","g","6"),
             Mv("g","6","g","5") }
      [] l = "promotion" ->
           { Mv("a","2","a","4"), Mv("a","4","a","5"), Mv("a","5","a","6"),
             Mv("a","6","b","7"), Mv("b","7","a","8"), Mv("b","7","c","8"),
             Mv("h","7","h","5"), Mv("h","5","h","4"), Mv("h","4","h","3"),
             Mv("h","3","g","2"), Mv("g","2","h","1"), Mv("g","8","f","6") }
      [] l = "king_capture" ->
           { Mv("e","2","e","4"), Mv("d","1","h","5"), Mv("h","5","e","8"),
             Mv("f","7","f","6"), Mv("a","7","a","6") }
      [] l = "kings" ->
           { Mv("d","2","d","4"), Mv("e","1","d","2"), Mv("d","2","d","3"),
             Mv("e","2","e","4"), Mv("d","3","c","4"), Mv("c","4","d","5"),
             Mv("e","7","e","5"), Mv("e","8","e","7"), Mv("e","7","e","6"),
             Mv("a","7","a","6"), Mv("a","6","a","5") }

\* ------------------------------------------------------------------------
\* The decoding of the human's input (src/encoder_decoder.py)
\* ------------------------------------------------------------------------

\* what decode_move returns or raises: text is "positions" for a string
\* "<start_pos> <end_pos>", else the head of the message; exc is "None" when
\* the call returns; board is the board the caller holds after the call
Decoded(exc, text, start_pos, end_pos, board_after) ==
    [exc |-> exc, text |-> text, start_pos |-> start_pos, end_pos |-> end_pos,
     board |-> board_after]

\* the groups of the pattern of decode_move line 62 for a string without
\* line ends, matched from the end of the string: the check mark, the
\* promotion, the destination, and before them the optional piece letter,
\* origin file, origin rank and 'x'
move_groups(move) ==
    LET files == {FileLetters[i] : i \in 1..8}
        ranks == {RankDigits[i] : i \in 1..8}
        n0 == Len(move)
        n1 == IF n0 > 0 /\ move[n0] \in {"+", "#"} THEN n0 - 1 ELSE n0
        promoted == n1 >= 2 /\ move[n1 - 1] = "=" /\ move[n1] \in {"Q", "R", "B", "N"}
        n2 == IF promoted THEN n1 - 2 ELSE n1
        n3 == n2 - 2
        i1 == IF n3 >= 1 /\ move[1] \in {"K", "Q", "R", "B", "N"} THEN 1 ELSE 0
        i2 == IF n3 > i1 /\ move[i1 + 1] \in files THEN i1 + 1 ELSE i1
        i3 == IF n3 > i2 /\ move[i2 + 1] \in ranks THEN i2 + 1 ELSE i2
        i4 == IF n3 > i3 /\ move[i3 + 1] = "x" THEN i3 + 1 ELSE i3
    IN IF n2 >= 2 /\ move[n2 - 1] \in files /\ move[n2] \in ranks /\ i4 = n3
       THEN [match |-> TRUE,
             piece |-> IF i1 = 1 THEN move[1] ELSE "",
             from_file |-> IF i2 > i1 THEN move[i2] ELSE "",
             from_rank |-> IF i3 > i2 THEN move[i3] ELSE "",
             to_square |-> <<move[n2 - 1], move[n2]>>,
             promotion_piece |-> IF promoted THEN move[n1] ELSE ""]
       ELSE [match |-> FALSE, piece |-> "", from_file |-> "", from_rank |-> "",
             to_square |-> <<>>, promotion_piece |-> ""]

\* decode_move lines 92-105: the cells of the player's pieces of the class
\* the move names whose position attribute agrees with the origin file and
\* rank the move gives
possible_pieces(groups, board, player) ==
    {k \in Cells :
        /\ board[RowOf(k)][ColOf(k)].color = player
        /\ board[RowOf(k)][ColOf(k)].type
              = FenPieceType(IF groups.piece # "" THEN groups.piece ELSE "P")
        /\ groups.from_file # ""
              => board[RowOf(k)][ColOf(k)].position[1] = groups.from_file
        /\ groups.from_rank # ""
              => board[RowOf(k)][ColOf(k)].position[2] = groups.from_rank}

\* decode_move lines 113-137 for the one piece that can make the move: with
\* a promotion piece the board is written (lines 128-135)
decode_selected(piece_instance, groups, board, player) ==
    LET s == position_to_indices(piece_instance.position)
        e == position_to_indices(groups.to_square)
        promoted_piece == Piece(128 + piece_instance.id,
                                FenPieceType(groups.promotion_piece),
                                player, groups.to_square)
    IN Decoded("None", "positions", piece_instance.position, groups.to_square,
               IF groups.promotion_piece # ""
               THEN [[board EXCEPT ![e[1]][e[2]] = promoted_piece]
                            EXCEPT ![s[1]][s[2]] = None]
               ELSE board)

\* decode_move lines 107-143, given what valid_moves returned or raised for
\* each possible piece
decode_validated(is_valid, groups, board, player) ==
    LET raised == {k \in DOMAIN is_valid : is_valid[k] \notin {"True", "False"}}
        valid == {k \in DOMAIN is_valid : is_valid[k] = "True"}
    IN IF raised # {} THEN Decoded(is_valid[MinOf(raised)], "", <<>>, <<>>, board)
       ELSE IF Cardinality(valid) > 1
       THEN Decoded("None", "Ambiguous move", <<>>, <<>>, board)
       ELSE IF valid = {}
       THEN Decoded("None", "No valid", <<>>, <<>>, board)
       ELSE decode_selected(board[RowOf(MinOf(valid))][ColOf(MinOf(valid))],
                            groups, board, player)

\* decode_move lines 63-143, given the groups of the pattern
decode_matched(groups, move, board, player, last_move) ==
    IF ~groups.match
    THEN IF move = <<"q">> THEN Decoded("None", "q", <<>>, <<>>, board)
         ELSE Decoded("None", "Invalid move notation", <<>>, <<>>, board)
    ELSE decode_validated(
             [k \in possible_pieces(groups, board, player) |->
                 valid_moves(board[RowOf(k)][ColOf(k)], board,
                             board[RowOf(k)][ColOf(k)].position,
                             groups.to_square, last_move)],
             groups, board, player)

\* encoder_decoder.decode_move, the function main.py imports; move is the
\* sequence of the characters of the input
decode_move(move, board, player, last_move) ==
    IF move \in {<<"O", "-", "O">>, <<"0", "-", "0">>}
    THEN IF player = "white"
         THEN Decoded("None", "positions", Sq("e", "1"), Sq("g", "1"), board)
         ELSE Decoded("None", "positions", Sq("e", "8"), Sq("g", "8"), board)
    ELSE IF move \in {<<"O", "-", "O", "-", "O">>, <<"0", "-", "0", "-", "0">>}
    THEN IF player = "white"
         THEN Decoded("None", "positions", Sq("e", "1"), Sq("c", "1"), board)
         ELSE Decoded("None", "positions", Sq("e", "8"), Sq("c", "8"), board)
    ELSE decode_matched(move_groups(move), move, board, player, last_move)

\* the strings the human enters
MoveInputs ==
    { <<f, r>> : f \in {"b", "e"}, r \in {"3", "4"} }
    \cup { <<f, r, "=", p>> : f \in {"b", "e"}, r \in {"3", "4"}, p \in {"Q", "N"} }
    \cup { <<"N", "c", "3">>, <<"b", "2", "b", "3">>, <<"e", "x", "d", "5">>,
           <<"b", "3", "+">>, <<"O", "-", "O">>, <<"q">>, <<"e", "9">>,
           <<"b", "3", "=">>, <<"e", "2", " ", "e", "4">> }

\* ------------------------------------------------------------------------
\* minimax on a game given position by position
\* ------------------------------------------------------------------------

\* the largest depth at which minimax is called on a given game
MaxSearchDepth == 4

\* a move of a given game: the piece it captures (None for no capture) and
\* the position it leads to
GameMove(captured_piece, to) == [captured_piece |-> captured_piece, to |-> to]

\* a position of a given game: what evaluate_board(board, 'black',
\* last_move) gives for it (ten times the number) and what
\* get_all_legal_moves returns for the side to move
Position(value, moves) == [value |-> value, moves |-> moves]

\* the captured piece of a move of a given game
Captured(type) == IF type = "None" THEN None ELSE Piece(1, type, "white", <<>>)

\* The games given to minimax.  From position 1 one move leads to position
\* 2, where no move is legal, and one to position 3; from 3 one move, which
\* may capture, leads to 4; from 4 one move leads to 5; from 5 two moves
\* lead to 6 and 7.
Game(v2, v6, v7, type) ==
    <<Position(0, <<GameMove(None, 2), GameMove(None, 3)>>),
      Position(v2, <<>>),
      Position(0, <<GameMove(Captured(type), 4)>>),
      Position(0, <<GameMove(None, 5)>>),
      Position(0, <<GameMove(None, 6), GameMove(None, 7)>>),
      Position(v6, <<>>),
      Position(v7, <<>>)>>

GameValues == {-100, 0, 100}
GameCaptures == {"None", "Pawn", "Queen"}

RECURSIVE minimax_game(_, _, _, _, _, _, _)
RECURSIVE minimax_game_loop(_, _, _, _, _, _, _, _, _, _)

\* lines 221-230 (261-270) after the i-th legal move of position n; with
\* cut_off FALSE the test "if beta <= alpha: break" is left out
minimax_game_continued(examined, game, n, depth, maximizing_player, cut_off, i) ==
    IF cut_off /\ examined.cut
    THEN MinimaxResult("None", examined.best_eval,
                       selected_move(examined.best_moves, maximizing_player), i)
    ELSE minimax_game_loop(game, n, depth, examined.alpha, examined.beta,
                           maximizing_player, cut_off, i + 1, examined.best_eval,
                           examined.best_moves)

\* lines 193-230 (233-270) from the i-th legal move of position n on
minimax_game_loop(game, n, depth, alpha, beta, maximizing_player, cut_off, i, best_eval, best_moves) ==
    IF i > Len(game[n].moves)
    THEN MinimaxResult("None", best_eval,
                       selected_move(best_moves, maximizing_player), i - 1)
    ELSE minimax_game_continued(
             move_examined(
                 minimax_game(game, game[n].moves[i].to, depth - 1, alpha, beta,
                              IF maximizing_player THEN FALSE ELSE TRUE,
                              cut_off).evaluation,
                 <<n, game[n].moves[i].to>>, None, game[n].moves[i].captured_piece,
                 alpha, beta, maximizing_player, best_eval, best_moves),
             game, n, depth, maximizing_player, cut_off, i)

\* algorithm.minimax lines 178-270 on position n of a given game, no
\* position of which ends the game
minimax_game(game, n, depth, alpha, beta, maximizing_player, cut_off) ==
    IF depth = 0 \/ game[n].moves = <<>>
    THEN MinimaxResult("None", game[n].value, <<>>, 0)
    ELSE minimax_game_loop(game, n, depth, alpha, beta, maximizing_player, cut_off,
                           1, IF maximizing_player THEN -inf ELSE inf, <<>>)

\* a call of minimax on a given game: game, depth and maximizing_player are
\* its arguments; returned is <<>> while it runs, then what the call
\* returned followed by what the same call returns without the cut-off
Search(game, depth, maximizing_player, returned) ==
    [game |-> game, depth |-> depth, maximizing_player |-> maximizing_player,
     returned |-> returned]

NoSearch == Search(<<>>, 0, FALSE, <<>>)

\* the process of start_ai_move (lines 124-127): process is "none" when none
\* has been asked for, "scheduled" when root.after will call start_ai_move,
\* "alive" while calculate_ai_move runs, "exited" when it has ended, "joined"
\* when check_ai_move has read its result; queue is the queue it was given
Worker(process, queue) == [process |-> process, queue |-> queue]

NoWorker == Worker("none", <<>>)

VARIABLES
    board,       \* ChessGUI.board: the 8x8 grid of pieces
    turn,        \* ChessGUI.turn: the colour to move
    last_move,   \* ChessGUI.last_move: <<>> for None, else <<start_pos, end_pos>>
    line,        \* the study line the players' inputs are drawn from
    nmoves,      \* the number of moves applied so far
    outcome,     \* the last call: its arguments, what it returned or raised, what it printed
    applied,     \* the piece and squares of the last move that move_piece applied
    moved,       \* the ids of the pieces that move_piece has moved
    board_copy,  \* <<>> or <<b>>: the board copy of the last simulation
    shown,       \* the result given to ChessGUI.show_result, "None" before
    tree,        \* the nodes of the running call of mcts, <<>> when none runs
    simulations, \* the passes of the loop the running call of mcts has left
    pool,        \* the running call of simulate_parallel, NoPlayouts when none runs
    search,      \* a call of minimax on a given game: its arguments and what it returned
    ai_process   \* the process start_ai_move has started and its queue

vars == <<board, turn, last_move, line, nmoves, outcome, applied, moved, board_copy,
          shown,
          tree, simulations, pool, search, ai_process>>

\* the record of a call of move_piece or move_piece_simulation: the piece that
\* stood on start_pos, the two squares, the returned value or the exception
\* (ret), and the square printed by move_piece line 181
Outcome(op, piece, start_pos, end_pos, ret, en_passant) ==
    [op |-> op, type |-> piece.type, color |-> piece.color,
     start_pos |-> start_pos, end_pos |-> end_pos,
     ret |-> ret, en_passant |-> en_passant]

NoOutcome == [op |-> "none", type |-> "None", color |-> "none",
              start_pos |-> <<>>, end_pos |-> <<>>,
              ret |-> "none", en_passant |-> <<>>]
NoApplied == [type |-> "None", color |-> "none", start_pos |-> <<>>, end_pos |-> <<>>]

\* ChessGUI.__init__: initialize_board(), white to move, no last move
ChessGUI_init ==
    /\ board = initialize_board(DefaultFen)
    /\ turn = "white"
    /\ last_move = <<>>
    /\ nmoves = 0
    /\ outcome = NoOutcome
    /\ applied = NoApplied
    /\ moved = {}
    /\ board_copy = <<>>
    /\ shown = "None"
    /\ tree = <<>>
    /\ simulations = 0
    /\ pool = NoPlayouts
    /\ ai_process = NoWorker

Init ==
    /\ ChessGUI_init
    /\ line \in Lines
    /\ search = NoSearch

\* The side to move enters a move and the game loop applies it.
\* ChessGUI.on_square_click, both clicks: the first click selects a piece of
\* the side to move on start_pos (lines 86-88); a second click on a square
\* that does not hold a piece of that side (lines 94-100) hands the pair to
\* move_piece.  On success last_move and turn are updated (lines 105-110, and
\* lines 139-141 of check_ai_move for the other side); on failure nothing but
\* what move_piece wrote changes (lines 116-120); when move_piece raises, the
\* handler is left with nothing changed.  After a move has been applied
\* check_game_status is asked about the side now to move (lines 113-115 and
\* 145-147): when it reports the game over, show_result shows the result and
\* ends the main loop; when it raises, the handler is left with the move
\* applied.

\* lines 113-115: the result show_result is given, "None" when it is not
\* called
shown_after(status) == IF status[1] = "True" THEN status[2] ELSE "None"

\* on_square_click lines 103-120, given what move_piece returned or raised
\* for the piece on start_pos
MoveHandled(r, piece, start_pos, end_pos) ==
    /\ outcome' = Outcome("move_piece", piece, start_pos, end_pos, r.ret, r.en_passant)
    /\ IF r.ret = "True"
       THEN /\ board' = r.board
            /\ last_move' = <<start_pos, end_pos>>
            /\ turn' = opponent(turn)
            /\ nmoves' = nmoves + 1
            /\ applied' = [type |-> piece.type, color |-> piece.color,
                           start_pos |-> start_pos, end_pos |-> end_pos]
            /\ moved' = moved \cup {piece.id}
            /\ shown' = shown_after(check_game_status(r.board, opponent(turn),
                                                      <<start_pos, end_pos>>))
       ELSE /\ board' = (IF r.ret = "False" THEN r.board ELSE board)
            /\ UNCHANGED <<last_move, turn, nmoves, applied, moved, shown>>

on_square_click(start_pos, end_pos, choice) ==
    /\ shown = "None"
    /\ tree = <<>>
    /\ nmoves < MaxMoves
    /\ piece_color_at(board, start_pos) = turn
    /\ piece_color_at(board, end_pos) # turn
    /\ MoveHandled(move_piece(board, start_pos, end_pos, last_move, choice),
                   board[position_to_indices(start_pos)[1]]
                        [position_to_indices(start_pos)[2]],
                   start_pos, end_pos)
    /\ board_copy' = <<>>
    /\ UNCHANGED <<line, search, tree, simulations, pool>>

\* a move is entered for the side to move
MovePiece(start_pos, end_pos, choice) ==
    /\ on_square_click(start_pos, end_pos, choice)
    /\ UNCHANGED ai_process

\* what a simulation leaves: the board the caller holds and the copy that
\* was written
Simulated(sim, piece, start_pos, end_pos) ==
    /\ board' = sim.given
    /\ board_copy' = <<sim.copy>>
    /\ outcome' = Outcome("move_piece_simulation", piece, start_pos, end_pos,
                          "None", <<>>)

\* The speculative application of a move: a deep copy of the board is made and
\* move_piece_simulation is called on the copy with the copy's piece, for a
\* move of the side to move that the piece's valid_moves permits (the
\* contract of its callers: count_piece_mobility lines 123-129,
\* get_all_legal_moves lines 83-88, minimax lines 197-202).
Simulate(start_pos, end_pos) ==
    /\ shown = "None"
    /\ tree = <<>>
    /\ board_copy = <<>>
    /\ piece_color_at(board, start_pos) = turn
    /\ valid_moves(board[position_to_indices(start_pos)[1]]
                        [position_to_indices(start_pos)[2]],
                   board, start_pos, end_pos, last_move) = "True"
    /\ Simulated(simulate_on_copy(board,
                                  board[position_to_indices(start_pos)[1]]
                                       [position_to_indices(start_pos)[2]],
                                  start_pos, end_pos, last_move),
                 board[position_to_indices(start_pos)[1]]
                      [position_to_indices(start_pos)[2]],
                 start_pos, end_pos)
    /\ UNCHANGED <<turn, last_move, line, search, ai_process, nmoves, applied, moved, shown, tree, simulations, pool>>

\* The searches are run on the position the game has reached for the side
\* to move: on the initial position and on the position a move has just
\* produced (app.py lines 113 and 124, main.py lines 42 and 84).  The search
\* of update_board line 74 is started before the result of the game is shown.
\* A search is a call that returns before anything else is done.
SearchPoint ==
    /\ board_copy = <<>>
    /\ tree = <<>>
    /\ \/ outcome.op = "none"
       \/ outcome.op = "move_piece" /\ outcome.ret = "True"

\* the record of a call of a search: the move it returned in start_pos and
\* end_pos (<<>> when it returned None, a list or a status, or raised), and in
\* ret "None" when it returned and the exception's name when it raised
SearchOutcome(op, exc, move) ==
    Outcome(op, None, IF move = <<>> THEN <<>> ELSE move[1],
            IF move = <<>> THEN <<>> ELSE move[2], exc, <<>>)

\* get_all_legal_moves(board, turn, last_move) is called
GetAllLegalMoves ==
    /\ SearchPoint
    /\ outcome' = SearchOutcome("get_all_legal_moves",
                                get_all_legal_moves(board, turn, last_move).exc, <<>>)
    /\ board' = get_all_legal_moves_first(board, turn, last_move).given
    /\ UNCHANGED <<turn, last_move, line, search, ai_process, nmoves, applied, moved, board_copy, shown,
                   tree, simulations, pool>>

\* "None" when check_game_status returned, else the exception it raised
status_exception(status) == IF status[2] = "raised" THEN status[1] ELSE "None"

\* the record of a search that returns a move or raises
MoveSearchOutcome(op, result) == SearchOutcome(op, result.exc, result.move)

\* check_game_status(board, turn, last_move) is called; is_in_check simulates
\* nothing, so the simulations are those of get_all_legal_moves
CheckGameStatus ==
    /\ SearchPoint
    /\ outcome' = SearchOutcome("check_game_status",
                                status_exception(check_game_status(board, turn,
                                                                   last_move)),
                                <<>>)
    /\ board' = IF is_in_check(board, turn, last_move) \in {"True", "False"}
                THEN get_all_legal_moves_first(board, turn, last_move).given
                ELSE board
    /\ UNCHANGED <<turn, last_move, line, search, ai_process, nmoves, applied, moved, board_copy, shown,
                   tree, simulations, pool>>

\* the colours of ChessGUI.__init__ lines 17-18
human_color == "white"
ai_color == "black"

\* minimax is called for ai_color when it is to move, as the maximizing player
\* with the full window (ai_worker.py lines 5-8, main.py line 84)
Minimax(depth) ==
    /\ SearchPoint
    /\ turn = ai_color
    /\ outcome' = MoveSearchOutcome("minimax",
                                    minimax(board, depth, -inf, inf, TRUE, ai_color,
                                            last_move))
    /\ board' = minimax_first(board, depth, -inf, inf, TRUE, ai_color, last_move).given
    /\ UNCHANGED <<turn, last_move, line, search, ai_process, nmoves, applied, moved, board_copy, shown,
                   tree, simulations, pool>>

\* iterative_deepening is called for ai_color when it is to move
IterativeDeepening(max_depth, stop_depth) ==
    /\ SearchPoint
    /\ turn = ai_color
    /\ outcome' = MoveSearchOutcome("iterative_deepening",
                                    iterative_deepening(board, ai_color, last_move,
                                                        max_depth, stop_depth))
    /\ board' = iterative_deepening_first(board, ai_color, last_move, max_depth,
                                          stop_depth).given
    /\ UNCHANGED <<turn, last_move, line, search, ai_process, nmoves, applied, moved, board_copy, shown,
                   tree, simulations, pool>>

\* mcts(board, ai_color, last_move, simulations=n) is called when ai_color is
\* to move: lines 295-296, the root node holds the caller's board
MctsCall(n) ==
    /\ SearchPoint
    /\ turn = ai_color
    /\ tree' = <<MCTSNode(board, ai_color, last_move, 0, <<>>)>>
    /\ simulations' = n
    /\ UNCHANGED <<board, turn, last_move, line, search, ai_process, nmoves, outcome, applied, moved, board_copy,
                   shown, pool>>

\* mcts lines 298-313, one pass of the loop up to the call of
\* simulate_parallel: the selection and the expansion.  An exception ends
\* the call of mcts; a node of None ends the pass; otherwise the ten playouts
\* are handed to the executor (line 87).  The root's board is the caller's.
MctsSelect ==
    /\ tree # <<>>
    /\ simulations > 0
    /\ pool = NoPlayouts
    /\ \E sel \in mcts_selected(tree) :
          IF sel.exc # "None"
          THEN /\ outcome' = SearchOutcome("mcts", sel.exc, <<>>)
               /\ tree' = <<>>
               /\ simulations' = 0
               /\ UNCHANGED pool
          ELSE IF sel.node = 0
          THEN /\ tree' = sel.tree
               /\ simulations' = simulations - 1
               /\ UNCHANGED <<outcome, pool>>
          ELSE /\ tree' = sel.tree
               /\ pool' = Playouts(sel.node, n_simulations, 0, 0, 0, "None")
               /\ UNCHANGED <<outcome, simulations>>
    /\ board' = mcts_iteration_first(tree).given
    /\ UNCHANGED <<turn, last_move, line, search, ai_process, nmoves, applied, moved, board_copy, shown>>

\* simulate_once line 94 in one thread of the executor: the playout takes its
\* deep copy of the node's board
PlayoutCopy ==
    /\ pool.queued > 0
    /\ pool' = [pool EXCEPT !.queued = @ - 1, !.running = @ + 1]
    /\ UNCHANGED <<board, turn, last_move, line, search, ai_process, nmoves, outcome, applied, moved, board_copy,
                   shown, tree, simulations>>

\* simulate_once lines 95-126 in one thread of the executor: the playout
\* runs on its copy and returns or raises
PlayoutReturn ==
    /\ pool.running > 0
    /\ \E r \in simulate_once(tree[pool.node].board, tree[pool.node].color,
                              tree[pool.node].last_move) :
          /\ pool' = playout_returned(pool, r)
          /\ tree' = [tree EXCEPT ![pool.node] = node_after_playout(@, r.value)]
    /\ UNCHANGED <<board, turn, last_move, line, search, ai_process, nmoves, outcome, applied, moved, board_copy,
                   shown, simulations>>

\* simulate_parallel lines 87-88 and mcts lines 313-318, once every playout
\* has returned: executor.map passes on the exception of a playout, which
\* ends the call of mcts; otherwise the average is backpropagated.  The
\* result is a hundred times the average: the sum of the ten results, each
\* held ten times.
MctsBackpropagate ==
    /\ pool.node # 0
    /\ pool.returned = n_simulations
    /\ IF pool.exc # "None"
       THEN /\ outcome' = SearchOutcome("mcts", pool.exc, <<>>)
            /\ tree' = <<>>
            /\ simulations' = 0
       ELSE /\ tree' = backpropagate(tree, pool.node, pool.total)
            /\ simulations' = simulations - 1
            /\ UNCHANGED outcome
    /\ pool' = NoPlayouts
    /\ UNCHANGED <<board, turn, last_move, line, search, ai_process, nmoves, applied, moved, board_copy, shown>>

\* mcts lines 320-322, when the loop has ended: the move of the best child of
\* the root, or None
MctsReturn ==
    /\ tree # <<>>
    /\ simulations = 0
    /\ pool = NoPlayouts
    /\ \E move \in mcts_best_moves(tree) :
          outcome' = SearchOutcome("mcts", "None", move)
    /\ tree' = <<>>
    /\ UNCHANGED <<board, turn, last_move, line, search, ai_process, nmoves, applied, moved, board_copy, shown,
                   simulations, pool>>

Next ==
    \/ \E m \in LineMoves(line), choice \in PromotionChoices : MovePiece(m[1], m[2], choice)
    \/ \E m \in LineMoves(line) : Simulate(m[1], m[2])
    \/ GetAllLegalMoves
    \/ CheckGameStatus
    \/ \E depth \in 1..MaxDepth : Minimax(depth)
    \/ \E max_depth \in 1..MaxDepth, stop_depth \in 0..(MaxDepth - 1) :
          stop_depth < max_depth /\ IterativeDeepening(max_depth, stop_depth)
    \/ \E n \in 1..MaxSimulations : MctsCall(n)
    \/ MctsSelect
    \/ PlayoutCopy
    \/ PlayoutReturn
    \/ MctsBackpropagate
    \/ MctsReturn

Spec == Init /\ [][Next]_vars

\* ------------------------------------------------------------------------
\* games played with the moves the pieces' valid_moves permit
\* ------------------------------------------------------------------------

\* the number of moves of such a game
MaxLegalMoves == 11

\* the game starts on the initial board
InitLegal ==
    /\ ChessGUI_init
    /\ line = "kings"
    /\ search = NoSearch

\* get_all_legal_moves lines 78-91 for one piece and one destination, with
\* valid_moves and is_in_check called with last_move as checked.py lines
\* 25-28 and pieces.py line 111 call them: the move is one the piece's
\* valid_moves returns True for and after which, on the board
\* move_piece_simulation has written, the mover's king is not in check
is_legal(board_now, color, start_pos, end_pos, last) ==
    LET piece == board_now[position_to_indices(start_pos)[1]]
                          [position_to_indices(start_pos)[2]]
    IN /\ piece.color = color
       /\ valid_moves(piece, board_now, start_pos, end_pos, last) = "True"
       /\ checked_is_in_check(move_piece_simulation(board_now, piece, start_pos,
                                                    end_pos, last),
                              color, <<start_pos, end_pos>>) = "False"

\* The side to move plays such a move: the board is written as
\* move_piece_simulation writes it (minimax lines 197-202), the move becomes
\* the last move and the turn passes to the other side.
LegalMove(start_pos, end_pos) ==
    /\ nmoves < MaxLegalMoves
    /\ is_legal(board, turn, start_pos, end_pos, last_move)
    /\ board' = move_piece_simulation(board,
                                      board[position_to_indices(start_pos)[1]]
                                           [position_to_indices(start_pos)[2]],
                                      start_pos, end_pos, last_move)
    /\ turn' = opponent(turn)
    /\ last_move' = <<start_pos, end_pos>>
    /\ nmoves' = nmoves + 1
    /\ outcome' = Outcome("legal_move",
                          board[position_to_indices(start_pos)[1]]
                               [position_to_indices(start_pos)[2]],
                          start_pos, end_pos, "True", <<>>)
    /\ UNCHANGED <<line, search, ai_process, applied, moved, board_copy, shown, tree,
                   simulations, pool>>

NextLegal == \E m \in LineMoves(line) : LegalMove(m[1], m[2])

LegalSpec == InitLegal /\ [][NextLegal]_vars

\* ------------------------------------------------------------------------
\* The console game: the human's input (src/main.py, src/encoder_decoder.py)
\* ------------------------------------------------------------------------

\* the number of inputs of a console game
MaxInputs == 3

\* main lines 15-33: the initial board, White (the human) to move
InitMain ==
    /\ ChessGUI_init
    /\ line = "inputs"
    /\ search = NoSearch

\* main line 57, given what decode_move returned or raised: an exception
\* ends the program
InputDecoded(d) ==
    /\ board' = d.board
    /\ outcome' = [Outcome("decode_move", None, d.start_pos, d.end_pos,
                           IF d.exc # "None" THEN d.exc ELSE "True", <<>>)
                      EXCEPT !.type = d.text]

\* main lines 56-57: the input is decoded
DecodeMove(move) ==
    /\ turn = "white"
    /\ outcome.op # "decode_move"
    /\ outcome.ret \in {"none", "True", "False"}
    /\ nmoves < MaxInputs
    /\ InputDecoded(decode_move(move, board, "white", last_move))
    /\ nmoves' = nmoves + 1
    /\ UNCHANGED <<turn, last_move, line, search, ai_process, applied, moved, board_copy, shown,
                   tree, simulations, pool>>

\* main lines 68-75, given what move_piece returned or raised
main_moved(r, piece, start_pos, end_pos) ==
    /\ outcome' = Outcome("move_piece", piece, start_pos, end_pos,
                          IF r.ret \in {"True", "False"} THEN r.ret ELSE "False",
                          r.en_passant)
    /\ IF r.ret = "True"
       THEN /\ board' = r.board
            /\ last_move' = <<start_pos, end_pos>>
            /\ turn' = "black"
            /\ applied' = [type |-> piece.type, color |-> piece.color,
                           start_pos |-> start_pos, end_pos |-> end_pos]
            /\ moved' = moved \cup {piece.id}
       ELSE /\ board' = (IF r.ret = "False" THEN r.board ELSE board)
            /\ UNCHANGED <<last_move, turn, applied, moved>>

\* main lines 60-80 for the decoded input: move_input.split() gives two
\* strings only for "<start_pos> <end_pos>" (ValueError otherwise, line 76);
\* a square that does not hold a piece of the side to move ends the turn
\* (lines 63-66); else move_piece is called
HumanMove(choice) ==
    /\ outcome.op = "decode_move"
    /\ outcome.ret = "True"
    /\ IF outcome.type # "positions"
          \/ piece_color_at(board, outcome.start_pos) # turn
       THEN /\ outcome' = [outcome EXCEPT !.op = "move_input", !.ret = "False"]
            /\ UNCHANGED <<board, last_move, turn, applied, moved>>
       ELSE main_moved(move_piece(board, outcome.start_pos, outcome.end_pos,
                                  last_move, choice),
                       board[position_to_indices(outcome.start_pos)[1]]
                            [position_to_indices(outcome.start_pos)[2]],
                       outcome.start_pos, outcome.end_pos)
    /\ UNCHANGED <<line, search, ai_process, nmoves, board_copy, shown, tree, simulations, pool>>

\* main lines 82-85: minimax is called with the keyword model, which it does
\* not declare: TypeError, and the program ends
AiTurn ==
    /\ turn = "black"
    /\ outcome.op = "move_piece"
    /\ outcome' = Outcome("minimax", None, <<>>, <<>>, "TypeError", <<>>)
    /\ UNCHANGED <<board, turn, last_move, line, search, ai_process, nmoves, applied, moved,
                   board_copy, shown, tree, simulations, pool>>

NextMain ==
    \/ \E move \in MoveInputs : DecodeMove(move)
    \/ \E choice \in PromotionChoices : HumanMove(choice)
    \/ AiTurn

MainSpec == InitMain /\ [][NextMain]_vars

\* ------------------------------------------------------------------------
\* The GUI game: the human's clicks and the AI's process (src/app.py)
\* ------------------------------------------------------------------------

\* on_square_click for the human, whose buttons update_board enables only
\* on the human's turn (lines 69-77); when the move has given the turn to
\* the AI, update_board (line 110) asks for start_ai_move (line 74)
HumanClick(start_pos, end_pos, choice) ==
    /\ turn = human_color
    /\ on_square_click(start_pos, end_pos, choice)
    /\ ai_process' = IF turn' = ai_color THEN Worker("scheduled", <<>>) ELSE ai_process

\* start_ai_move: the process is started with an empty queue and
\* check_ai_move is asked for
StartAiMove ==
    /\ shown = "None"
    /\ ai_process.process = "scheduled"
    /\ ai_process' = Worker("alive", <<>>)
    /\ UNCHANGED <<board, turn, last_move, line, search, nmoves, outcome, applied,
                   moved, board_copy, shown, tree, simulations, pool>>

\* ai_worker.calculate_ai_move, given what minimax returned or raised: the
\* move (<<>> for None) is put on the queue, or the process ends with the
\* exception and the queue stays empty
calculated(r) ==
    IF r.exc # "None" THEN Worker("exited", <<>>) ELSE Worker("exited", <<r.move>>)

\* the process runs calculate_ai_move on its copy of the board and ends
CalculateAiMove ==
    /\ ai_process.process = "alive"
    /\ ai_process' = calculated(minimax(board, 3, -inf, inf, TRUE, ai_color, last_move))
    /\ UNCHANGED <<board, turn, last_move, line, search, nmoves, outcome, applied,
                   moved, board_copy, shown, tree, simulations, pool>>

\* check_ai_move lines 138-147, given what move_piece returned or raised
\* for the move of the queue: the returned value is not looked at
AiMoveHandled(r, piece, start_pos, end_pos) ==
    /\ outcome' = Outcome("move_piece", piece, start_pos, end_pos, r.ret, r.en_passant)
    /\ IF r.ret \in {"True", "False"}
       THEN /\ board' = r.board
            /\ last_move' = <<start_pos, end_pos>>
            /\ turn' = human_color
            /\ nmoves' = IF r.ret = "True" THEN nmoves + 1 ELSE nmoves
            /\ applied' = IF r.ret = "True"
                          THEN [type |-> piece.type, color |-> piece.color,
                                start_pos |-> start_pos, end_pos |-> end_pos]
                          ELSE applied
            /\ moved' = IF r.ret = "True" THEN moved \cup {piece.id} ELSE moved
            /\ shown' = shown_after(check_game_status(r.board, human_color,
                                                      <<start_pos, end_pos>>))
       ELSE UNCHANGED <<board, last_move, turn, nmoves, applied, moved, shown>>

\* check_ai_move once the process is no longer alive (lines 133-147): the
\* process is joined; a move found on the queue is applied and the turn
\* goes to the human; with an empty queue or None nothing else is done.
\* While the process is alive check_ai_move only asks to be called again.
CheckAiMove ==
    /\ shown = "None"
    /\ ai_process.process = "exited"
    /\ ai_process' = Worker("joined", ai_process.queue)
    /\ IF ai_process.queue # <<>> /\ ai_process.queue[1] # <<>>
       THEN \E choice \in PromotionChoices :
               AiMoveHandled(move_piece(board, ai_process.queue[1][1],
                                        ai_process.queue[1][2], last_move, choice),
                             board[position_to_indices(ai_process.queue[1][1])[1]]
                                  [position_to_indices(ai_process.queue[1][1])[2]],
                             ai_process.queue[1][1], ai_process.queue[1][2])
       ELSE UNCHANGED <<board, last_move, turn, nmoves, outcome, applied, moved, shown>>
    /\ UNCHANGED <<line, search, board_copy, tree, simulations, pool>>

\* the squares the human clicks are those of the moves of all study lines
HumanMoves == UNION {LineMoves(l) : l \in Lines}

NextGui ==
    \/ \E m \in HumanMoves, choice \in PromotionChoices :
          HumanClick(m[1], m[2], choice)
    \/ StartAiMove
    \/ CalculateAiMove
    \/ CheckAiMove

\* Tk calls what root.after has asked for, and the process runs to its end
GuiSpec ==
    /\ Init
    /\ [][NextGui]_vars
    /\ WF_vars(StartAiMove)
    /\ WF_vars(CalculateAiMove)
    /\ WF_vars(CheckAiMove)

\* ------------------------------------------------------------------------
\* minimax as a function of the game it is given
\* ------------------------------------------------------------------------

\* a call minimax(board, depth, float('-inf'), float('inf'),
\* maximizing_player, ...) on the first position of a game
InitSearch ==
    /\ ChessGUI_init
    /\ line \in Lines
    /\ search \in { Search(Game(v2, v6, v7, type), depth, maximizing_player, <<>>) :
                      v2 \in GameValues, v6 \in GameValues, v7 \in GameValues,
                      type \in GameCaptures, depth \in 1..MaxSearchDepth,
                      maximizing_player \in BOOLEAN }

\* the call returns
MinimaxGame ==
    /\ search.game # <<>>
    /\ search.returned = <<>>
    /\ search' = [search EXCEPT !.returned =
                     <<minimax_game(search.game, 1, search.depth, -inf, inf,
                                    search.maximizing_player, TRUE),
                       minimax_game(search.game, 1, search.depth, -inf, inf,
                                    search.maximizing_player, FALSE)>>]
    /\ UNCHANGED <<board, turn, last_move, line, ai_process, nmoves, outcome, applied,
                   moved, board_copy, shown, tree, simulations, pool>>

NextSearch == MinimaxGame

SearchSpec == InitSearch /\ [][NextSearch]_vars

\* ------------------------------------------------------------------------
\* The rules of chess the properties are stated against
\* ------------------------------------------------------------------------

Colors == {"white", "black"}

Sign(x) == IF x > 0 THEN 1 ELSE IF x < 0 THEN -1 ELSE 0

\* every square strictly between (r1, c1) and (r2, c2), two squares of one
\* rank, file or diagonal, is empty
ClearBetween(b, r1, c1, r2, c2) ==
    \A i \in 1..6 : i < Max(Abs(r2 - r1), Abs(c2 - c1)) =>
        b[r1 + i * Sign(r2 - r1)][c1 + i * Sign(c2 - c1)] = None

\* the piece on (r1, c1) attacks the square (r2, c2), whatever stands on it
PieceAttacks(b, r1, c1, r2, c2) ==
    LET p == b[r1][c1]
        dr == r2 - r1
        dc == c2 - c1
        straight == (dr = 0) # (dc = 0)
        diagonal == Abs(dr) = Abs(dc) /\ dr # 0
    IN CASE p.type = "Knight" -> {Abs(dr), Abs(dc)} = {1, 2}
         [] p.type = "King" -> Max(Abs(dr), Abs(dc)) = 1
         [] p.type = "Pawn" -> dr = pawn_direction(p.color) /\ Abs(dc) = 1
         [] p.type = "Rook" -> straight /\ ClearBetween(b, r1, c1, r2, c2)
         [] p.type = "Bishop" -> diagonal /\ ClearBetween(b, r1, c1, r2, c2)
         [] p.type = "Queen" -> (straight \/ diagonal) /\ ClearBetween(b, r1, c1, r2, c2)
         [] OTHER -> FALSE

\* some piece of by_color attacks the square (r, c)
SquareAttacked(b, r, c, by_color) ==
    \E k \in Cells : /\ b[RowOf(k)][ColOf(k)].color = by_color
                     /\ PieceAttacks(b, RowOf(k), ColOf(k), r, c)

\* the king of color stands on an attacked square
KingAttacked(b, color) ==
    \E k \in Cells : /\ b[RowOf(k)][ColOf(k)].type = "King"
                     /\ b[RowOf(k)][ColOf(k)].color = color
                     /\ SquareAttacked(b, RowOf(k), ColOf(k), opponent(color))

\* start_pos -> end_pos is a legal move of the piece on start_pos: its
\* movement predicate permits it and, once it is applied on a copy of the
\* board, the mover's king is not attacked
RuleLegal(b, start_pos, end_pos, lm) ==
    LET s == position_to_indices(start_pos)
        piece == b[s[1]][s[2]]
    IN /\ piece # None
       /\ valid_moves(piece, b, start_pos, end_pos, lm) = "True"
       /\ ~KingAttacked(move_piece_simulation(b, piece, start_pos, end_pos, lm), piece.color)

\* the legal moves of color
RuleLegalMoves(b, color, lm) ==
    {m \in Positions \X Positions :
        piece_color_at(b, m[1]) = color /\ RuleLegal(b, m[1], m[2], lm)}

\* the farthest row of a pawn of color, in the direction Pawn.valid_moves
\* makes it advance
FarthestRow(color) == IF pawn_direction(color) = 1 THEN 7 ELSE 0

PieceAt(b, position) ==
    LET i == position_to_indices(position) IN b[i[1]][i[2]]

\* ------------------------------------------------------------------------
\* Properties
\* ------------------------------------------------------------------------

\* C1: in every position of a game, move_piece called with a pair of squares
\* that is not a legal move for the colour of the piece on the origin (an
\* empty origin, a friendly destination, a move the movement predicate
\* refuses, a move that leaves the mover's king attacked) does not report
\* success and leaves every square of the board as it was.
C1_IllegalMoveRejected ==
    \A start_pos \in Positions, end_pos \in Positions :
        ~RuleLegal(board, start_pos, end_pos, last_move) =>
            LET r == move_piece(board, start_pos, end_pos, last_move, "Queen") IN
            r.ret # "True" /\ r.board = board

\* C2: in every position of a game and for each colour, get_all_legal_moves
\* returns, and the moves it returns are exactly the moves of that colour's
\* pieces that the movement predicate permits and that leave the mover's king
\* unattacked.
C2_LegalMovesExact ==
    \A color \in Colors :
        LET r == get_all_legal_moves(board, color, last_move) IN
        /\ r.exc = "None"
        /\ {r.moves[i] : i \in 1..Len(r.moves)} = RuleLegalMoves(board, color, last_move)

\* the position after 1. f3 e5 2. g4 Qh4
FoolsMate ==
    /\ nmoves = 4
    /\ turn = "white"
    /\ last_move = Mv("d", "8", "h", "4")
    /\ PieceAt(board, Sq("f", "3")).type = "Pawn"
    /\ PieceAt(board, Sq("g", "4")).type = "Pawn"
    /\ PieceAt(board, Sq("e", "5")).type = "Pawn"

\* C3: for the side to move, check_game_status reports a win of the other
\* colour exactly when the side has no legal move and its king is attacked, a
\* draw exactly when it has no legal move and its king is not attacked, and
\* "not over" otherwise; after the fool's mate it reports Black's win.
C3_StatusMatchesRules ==
    LET stuck == RuleLegalMoves(board, turn, last_move) = {}
        expected == IF stuck
                    THEN IF KingAttacked(board, turn)
                         THEN <<"True", IF turn = "white" THEN "black_win" ELSE "white_win">>
                         ELSE <<"True", "draw">>
                    ELSE <<"False", "None">>
    IN /\ check_game_status(board, turn, last_move) = expected
       /\ FoolsMate => /\ stuck
                       /\ check_game_status(board, turn, last_move) = <<"True", "black_win">>

\* C4: on the initial board get_all_legal_moves returns 20 moves for White,
\* and after any first move of White it returns 20 moves for Black.
C4_TwentyMoves ==
    /\ nmoves = 0 =>
          LET r == get_all_legal_moves(board, "white", last_move) IN
          r.exc = "None" /\ Len(r.moves) = 20
    /\ nmoves = 1 =>
          LET r == get_all_legal_moves(board, "black", last_move) IN
          r.exc = "None" /\ Len(r.moves) = 20

\* C5: whenever the last move was a double step of an opposing pawn that
\* landed beside a pawn of the side to move, Pawn.valid_moves permits that
\* pawn's diagonal step onto the empty square the double step passed over, and
\* move_piece applies it: it returns True, empties the square the double step
\* landed on (the capturing pawn's origin row, the destination's file), puts
\* the capturing pawn on the destination, and changes no other square beside
\* the origin.
C5_EnPassantCaptures ==
    last_move # <<>> =>
        LET ls == position_to_indices(last_move[1])
            le == position_to_indices(last_move[2])
            stepped == board[le[1]][le[2]]
        IN (/\ stepped.type = "Pawn"
            /\ stepped.color = opponent(turn)
            /\ ls[2] = le[2]
            /\ le[1] - ls[1] = 2 * pawn_direction(stepped.color)) =>
           \A d \in {-1, 1} :
               LET start_row == le[1]
                   start_col == le[2] + d
                   end_row == le[1] + pawn_direction(turn)
                   end_col == le[2]
               IN (/\ start_col \in Idx
                   /\ board[start_row][start_col].type = "Pawn"
                   /\ board[start_row][start_col].color = turn) =>
                  LET pawn == board[start_row][start_col]
                      start_pos == indices_to_position(start_col, start_row)
                      end_pos == indices_to_position(end_col, end_row)
                      r == move_piece(board, start_pos, end_pos, last_move, "Queen")
                  IN /\ board[end_row][end_col] = None
                     /\ Pawn_valid_moves(pawn, board, start_pos, end_pos, last_move) = "True"
                     /\ r.ret = "True"
                     /\ r.en_passant = last_move[2]
                     /\ r.board[start_row][end_col] = None
                     /\ r.board[end_row][end_col].type = "Pawn"
                     /\ r.board[end_row][end_col].color = turn
                     /\ r.board[end_row][end_col].position = end_pos
                     /\ r.board[start_row][start_col] = None
                     /\ \A row \in Idx, col \in Idx :
                            <<row, col>> \notin {<<start_row, start_col>>,
                                                 <<start_row, end_col>>,
                                                 <<end_row, end_col>>}
                            => r.board[row][col] = board[row][col]

\* White's pawn has just taken e5xd6 en passant: Black's pawn is gone from d5
C5_Witness ==
    /\ outcome.op = "move_piece"
    /\ outcome.ret = "True"
    /\ outcome.type = "Pawn"
    /\ outcome.start_pos = Sq("e", "5")
    /\ outcome.end_pos = Sq("d", "6")
    /\ outcome.en_passant = Sq("d", "5")
    /\ PieceAt(board, Sq("d", "5")) = None
    /\ PieceAt(board, Sq("d", "6")).type = "Pawn"
    /\ PieceAt(board, Sq("d", "6")).color = "white"

\* C6: in every position of a game, if Pawn.valid_moves permits a pawn's
\* diagonal step onto an empty square, then the last move that was applied is
\* a double step of an opposing pawn, and that pawn stands beside the
\* capturing pawn on the file of the destination; so after any other move has
\* been applied no earlier double step can be taken en passant.
C6_EnPassantOnlyAfterDoubleStep ==
    \A k \in Cells, d \in {-1, 1} :
        LET pawn == board[RowOf(k)][ColOf(k)]
            end_row == RowOf(k) + pawn_direction(pawn.color)
            end_col == ColOf(k) + d
        IN (/\ pawn.type = "Pawn"
            /\ end_row \in Idx
            /\ end_col \in Idx
            /\ board[end_row][end_col] = None
            /\ Pawn_valid_moves(pawn, board, indices_to_position(ColOf(k), RowOf(k)),
                                indices_to_position(end_col, end_row), last_move) = "True")
           => /\ applied.type = "Pawn"
              /\ applied.color = opponent(pawn.color)
              /\ last_move = <<applied.start_pos, applied.end_pos>>
              /\ LET a == position_to_indices(applied.start_pos)
                     z == position_to_indices(applied.end_pos)
                 IN /\ a[2] = z[2]
                    /\ z[1] - a[1] = 2 * pawn_direction(applied.color)
                    /\ z = <<RowOf(k), end_col>>
                    /\ board[z[1]][z[2]].type = "Pawn"
                    /\ board[z[1]][z[2]].color = applied.color

\* White's pawn on e5 stands between two black pawns that both made a double
\* step: d7-d5 is the last move applied and e5xd6 is permitted; f7-f5 was
\* followed by other moves and e5xf6 is refused
C6_Witness ==
    /\ applied.start_pos = Sq("d", "7")
    /\ applied.end_pos = Sq("d", "5")
    /\ PieceAt(board, Sq("e", "5")).type = "Pawn"
    /\ PieceAt(board, Sq("e", "5")).color = "white"
    /\ PieceAt(board, Sq("f", "5")).type = "Pawn"
    /\ PieceAt(board, Sq("f", "5")).color = "black"
    /\ PieceAt(board, Sq("f", "6")) = None
    /\ PieceAt(board, Sq("d", "6")) = None
    /\ Pawn_valid_moves(PieceAt(board, Sq("e", "5")), board, Sq("e", "5"), Sq("d", "6"),
                        last_move) = "True"
    /\ Pawn_valid_moves(PieceAt(board, Sq("e", "5")), board, Sq("e", "5"), Sq("f", "6"),
                        last_move) = "False"

\* the king of color and both its rooks stand unmoved on their squares, the
\* squares between them are empty, and no square of the king's two paths (its
\* start, the two squares it passes over, its two destinations) is attacked
CastleConditions(b, color) ==
    LET row == IF color = "white" THEN 0 ELSE 7 IN
    /\ b[row][4].type = "King" /\ b[row][4].color = color /\ ~b[row][4].has_moved
    /\ b[row][0].type = "Rook" /\ b[row][0].color = color /\ ~b[row][0].has_moved
    /\ b[row][7].type = "Rook" /\ b[row][7].color = color /\ ~b[row][7].has_moved
    /\ \A c \in {1, 2, 3, 5, 6} : b[row][c] = None
    /\ \A c \in {2, 3, 4, 5, 6} : ~SquareAttacked(b, row, c, opponent(color))

\* C7: whenever a king and both its rooks are unmoved, the squares between
\* them empty and the king's start, transit and destination squares
\* unattacked, get_all_legal_moves returns for that colour a list holding both
\* two-file steps of the king.
C7_BothCastlesLegal ==
    \A color \in Colors :
        CastleConditions(board, color) =>
            LET r == get_all_legal_moves(board, color, last_move)
                rank == IF color = "white" THEN "1" ELSE "8"
                listed == {r.moves[i] : i \in 1..Len(r.moves)}
            IN /\ r.exc = "None"
               /\ Mv("e", rank, "g", rank) \in listed
               /\ Mv("e", rank, "c", rank) \in listed

\* C8: in every position of a game, King.valid_moves does not permit a
\* two-file step of a king whose start square, transit square or destination
\* square is attacked by an opposing piece.
C8_NoCastlingThroughAttack ==
    \A k \in Cells, d \in {-2, 2} :
        LET king == board[RowOf(k)][ColOf(k)]
            end_col == ColOf(k) + d
        IN (/\ king.type = "King"
            /\ end_col \in Idx
            /\ \E c \in {ColOf(k), ColOf(k) + d \div 2, end_col} :
                   SquareAttacked(board, RowOf(k), c, opponent(king.color)))
           => King_valid_moves(king, board, indices_to_position(ColOf(k), RowOf(k)),
                               indices_to_position(end_col, RowOf(k)), last_move) # "True"

\* C9: after move_piece or move_piece_simulation has moved a king two files,
\* the king stands on its destination marked has-moved, the rook of that side
\* stands on the square the king passed over marked has-moved, and the
\* rook's corner is empty.
C9_CastlingMovesRook ==
    LET s == position_to_indices(outcome.start_pos)
        e == position_to_indices(outcome.end_pos)
        b == IF outcome.op = "move_piece" THEN board ELSE board_copy[1]
        corner == IF e[2] > s[2] THEN 7 ELSE 0
        transit == (s[2] + e[2]) \div 2
    IN (/\ outcome.type = "King"
        /\ outcome.ret \in {"True", "None"}
        /\ s[1] = e[1]
        /\ Abs(e[2] - s[2]) = 2)
       => /\ b[e[1]][e[2]].type = "King"
          /\ b[e[1]][e[2]].has_moved
          /\ b[s[1]][transit].type = "Rook"
          /\ b[s[1]][transit].color = outcome.color
          /\ b[s[1]][transit].has_moved
          /\ b[s[1]][corner] = None

\* no pawn of b stands on the farthest row of its colour
NoPawnOnFarthestRow(b) ==
    \A row \in Idx, col \in Idx :
        b[row][col].type = "Pawn" => row # FarthestRow(b[row][col].color)

\* C10: after a move has been applied no pawn stands on the farthest row of
\* its colour, on the board or on a simulation's copy; the piece that
\* move_piece or move_piece_simulation left on the destination of a pawn that
\* reached that row is a piece of the pawn's colour that is not a pawn (a Queen
\* on the copy) and records the destination as its position.
C10_PawnPromoted ==
    /\ NoPawnOnFarthestRow(board)
    /\ board_copy # <<>> => NoPawnOnFarthestRow(board_copy[1])
    /\ (/\ outcome.type = "Pawn"
        /\ outcome.ret \in {"True", "None"}
        /\ position_to_indices(outcome.end_pos)[1] = FarthestRow(outcome.color))
       => LET b == IF outcome.op = "move_piece" THEN board ELSE board_copy[1]
              placed == PieceAt(b, outcome.end_pos)
          IN /\ placed.type \in PromotionChoices
             /\ outcome.op = "move_piece_simulation" => placed.type = "Queen"
             /\ placed.color = outcome.color
             /\ placed.position = outcome.end_pos

\* C11: for the indices of every occupied cell of the board, converting the
\* pair to the algebraic string and back gives the same pair in the same
\* order; and for every square a player enters, converting the string to
\* indices and passing the returned pair on unchanged to the inverse
\* conversion gives the same string.
C11_RoundTrip ==
    /\ \A cell \in OccupiedCells(board) :
          LET i == RowOf(cell)
              j == ColOf(cell)
          IN position_to_indices(indices_to_position(i, j)) = <<i, j>>
    /\ \A m \in LineMoves(line) : \A position \in {m[1], m[2]} :
          LET pair == position_to_indices(position)
          IN indices_to_position(pair[1], pair[2]) = position

\* C12: in every position of a game, every piece on the board records as its
\* position the algebraic square of the cell that holds it.
C12_RecordedPosition ==
    \A row \in Idx, col \in Idx :
        board[row][col] # None =>
            board[row][col].position = indices_to_position(col, row)

\* the cells of a board that hold a king of a colour
KingCells(b, color) ==
    {cell \in Cells : b[RowOf(cell)][ColOf(cell)].type = "King"
                      /\ b[RowOf(cell)][ColOf(cell)].color = color}

\* C13: in every position of a game the board holds at most one white king
\* and at most one black king, and no piece object stands on two squares.
C13_OneKingOneSquare ==
    /\ \A color \in Colors : Cardinality(KingCells(board, color)) <= 1
    /\ \A c1 \in OccupiedCells(board), c2 \in OccupiedCells(board) :
          board[RowOf(c1)][ColOf(c1)].id = board[RowOf(c2)][ColOf(c2)].id
              => c1 = c2

\* move_piece has applied a capture and a king is still on the board
C13_Witness ==
    /\ outcome.op = "move_piece"
    /\ outcome.ret = "True"
    /\ Cardinality(OccupiedCells(board)) < 32
    /\ \E color \in Colors : KingCells(board, color) # {}

\* C18: in every position of a game where a colour's king is not on the
\* board, is_in_check (both versions) returns True for that colour,
\* get_all_legal_moves returns the empty list and check_game_status returns
\* the game over as a win of the other colour; none of the calls raises.
C18_KingAbsent ==
    \A color \in Colors :
        find_king(board, color) = <<>> =>
            /\ is_in_check(board, color, last_move) = "True"
            /\ checked_is_in_check(board, color, last_move) = "True"
            /\ get_all_legal_moves(board, color, last_move) = LegalResult("None", <<>>)
            /\ check_game_status(board, color, last_move) =
                   <<"True", IF color = "white" THEN "black_win" ELSE "white_win">>

\* a king has been captured, and the side that lost it still has pieces that
\* valid_moves permits to move
C18_Witness ==
    \E color \in Colors :
        /\ find_king(board, color) = <<>>
        /\ \E k \in OccupiedCells(board), j \in Cells :
              /\ board[RowOf(k)][ColOf(k)].color = color
              /\ is_valid_call(board[RowOf(k)][ColOf(k)], board,
                               indices_to_position(ColOf(k), RowOf(k)),
                               indices_to_position(ColOf(j), RowOf(j)),
                               last_move) = "True"

\* square strings that are not a file letter a..h followed by a rank digit
\* 1..8: 'i1', 'a9', 'a0' and 'ex'
MalformedSquares == {Sq("i","1"), Sq("a","9"), Sq("a","0"), Sq("e","x")}

\* a call that raised: its result is neither a returned value nor None
Raised(result) == result \notin {"True", "False", "None"}

\* every movement predicate and move_piece raise for the piece on a cell of
\* the board when square s is given as the destination, and move_piece
\* raises and leaves the board alone when s is given as the origin
RejectedOnBoard(s) ==
    \A cell \in OccupiedCells(board) :
        LET piece == board[RowOf(cell)][ColOf(cell)]
            start_pos == indices_to_position(ColOf(cell), RowOf(cell))
        IN /\ Raised(valid_moves(piece, board, start_pos, s, last_move))
           /\ \A choice \in PromotionChoices :
                 /\ Raised(move_piece(board, start_pos, s, last_move, choice).ret)
                 /\ Raised(move_piece(board, s, start_pos, last_move, choice).ret)
                 /\ move_piece(board, start_pos, s, last_move, choice).board = board
                 /\ move_piece(board, s, start_pos, last_move, choice).board = board

\* C19: in every position of a game, for each of the malformed squares 'i1',
\* 'a9', 'a0' and 'ex', position_to_indices raises instead of returning
\* indices; and for each of them that position_to_indices does reject, every
\* piece's valid_moves and move_piece raise too, never answer False, and
\* leave the board unchanged.
C19_MalformedRejected ==
    /\ \A s \in MalformedSquares : Raised(position_to_indices_raises(s))
    /\ \A s \in MalformedSquares :
          Raised(position_to_indices_raises(s)) => RejectedOnBoard(s)

\* C20: in every position of a game, get_all_legal_moves and
\* check_game_status for either colour, and move_piece for every pair of
\* squares of the board (origin equal to destination included), return a
\* value and do not raise.
C20_NeverRaises ==
    /\ \A color \in Colors :
          /\ ~Raised(get_all_legal_moves(board, color, last_move).exc)
          /\ ~Raised(check_game_status(board, color, last_move)[1])
    /\ \A start_pos \in Positions, end_pos \in Positions :
          \A choice \in PromotionChoices :
              ~Raised(move_piece(board, start_pos, end_pos, last_move, choice).ret)

\* the calls that search a position
SearchOps == {"get_all_legal_moves", "check_game_status", "minimax",
              "iterative_deepening", "mcts"}

\* C14: a call of get_all_legal_moves, check_game_status, minimax,
\* iterative_deepening or mcts leaves the board it was given as it was: the
\* same piece on every square, with the position and has_moved it had.
C14_BoardUnchanged ==
    [][(outcome'.op \in SearchOps \/ tree # <<>> \/ tree' # <<>>) => board' = board]_vars

\* a call of get_all_legal_moves has simulated a move and has returned its
\* list; a call of minimax has simulated a move in its evaluation and has
\* returned; a call of mcts has simulated a move and has returned
C14_Witness ==
    \/ /\ outcome.op = "get_all_legal_moves"
       /\ outcome.ret = "None"
       /\ get_all_legal_moves_first(board, turn, last_move).kind = "sim"
    \/ /\ outcome.op = "minimax"
       /\ outcome.ret = "None"
       /\ minimax_first(board, 1, -inf, inf, TRUE, ai_color, last_move).kind = "sim"
    \/ /\ outcome.op = "mcts"
       /\ outcome.ret = "None"
       /\ get_all_legal_moves_first(board, turn, last_move).kind = "sim"

\* the board after the move m of the piece on its start square
AfterMove(b, m, lm) == move_piece_simulation(b, PieceAt(b, m[1]), m[1], m[2], lm)

\* the legal moves of color that take a piece
RuleCaptures(b, color, lm) ==
    {m \in RuleLegalMoves(b, color, lm) :
        Cardinality(OccupiedCells(AfterMove(b, m, lm))) < Cardinality(OccupiedCells(b))}

\* no piece of the other colour attacks the end square of m once m is made
Undefended(b, m, lm) ==
    LET e == position_to_indices(m[2])
    IN ~SquareAttacked(AfterMove(b, m, lm), e[1], e[2],
                       opponent(PieceAt(b, m[1]).color))

\* C15: a call of minimax with a depth of at least 1, and a run of mcts of at
\* least one iteration, returns; it returns None exactly when the side to
\* move has no legal move, and otherwise a legal move of the position.
C15_SearchMoveLegal ==
    outcome.op \in {"minimax", "mcts"} =>
        LET legal == RuleLegalMoves(board, turn, last_move) IN
        /\ outcome.ret = "None"
        /\ (outcome.start_pos = <<>>) <=> (legal = {})
        /\ outcome.start_pos # <<>> => <<outcome.start_pos, outcome.end_pos>> \in legal

\* C16: in a position a move has produced in which the maximizing side is to
\* move and exactly one of its legal moves takes a piece, an undefended one,
\* minimax called with depth 1 returns that move.
C16_FreeCaptureTaken ==
    (turn = ai_color /\ outcome.op = "move_piece" /\ outcome.ret = "True") =>
        LET captures == RuleCaptures(board, turn, last_move) IN
        (Cardinality(captures) = 1 /\ \A m \in captures : Undefended(board, m, last_move))
            => LET r == minimax(board, 1, -inf, inf, TRUE, turn, last_move)
               IN r.exc = "None" /\ r.move \in captures

\* the sum of the visits of the children of node n
ChildrenVisits(n) ==
    SumFn([c \in children(tree, n) |-> tree[c].visits], children(tree, n))

\* no node that stays in the tree loses visits
VisitsNeverDecrease ==
    \A n \in 1..Len(tree) : n <= Len(tree') => tree'[n].visits >= tree[n].visits

PatternReaches(b, k, pos, lm) ==
    LET piece == b[RowOf(k)][ColOf(k)]
        e == position_to_indices(pos)
    IN IF piece.type = "King"
       THEN /\ Max(Abs(e[1] - RowOf(k)), Abs(e[2] - ColOf(k))) = 1
            /\ b[e[1]][e[2]].color # piece.color
       ELSE valid_moves(piece, b, indices_to_position(ColOf(k), RowOf(k)), pos, lm) = "True"

\* C21: in every position a move has produced, is_square_attacked is true
\* for every square and defending colour such that the movement pattern of
\* some piece of the other colour, its king included, reaches the square,
\* whether or not that move would leave the mover's own king attacked.
C21_AttackedOnePly ==
    (outcome.op = "move_piece" /\ outcome.ret = "True") =>
        \A pos \in Positions, color \in Colors :
            (\E k \in Cells : /\ board[RowOf(k)][ColOf(k)].color = opponent(color)
                              /\ PatternReaches(board, k, pos, last_move))
                => is_square_attacked(board, pos, color, last_move) = "True"

WithChild(move) ==
    Append(tree, MCTSNode(tree[1].board, opponent(tree[1].color), move, 1, move))

CountersChange ==
    \E n \in 1..Len(tree) :
        n <= Len(tree') /\ (tree'[n].visits # tree[n].visits \/ tree'[n].wins # tree[n].wins)

HomeRow(color) == IF color = "white" THEN 0 ELSE 7

\* the column of the corner and of the king's destination on a side
CornerCol(side) == IF side = "kingside" THEN 7 ELSE 0
CastleCol(side) == IF side = "kingside" THEN 6 ELSE 2

\* the two-file step of the king of color on its home square towards side is
\* permitted
CastlePermitted(color, side) ==
    LET row == HomeRow(color)
        king == board[row][4]
    IN /\ king.type = "King"
       /\ king.color = color
       /\ King_valid_moves(king, board, indices_to_position(4, row),
                           indices_to_position(CastleCol(side), row), last_move) = "True"

KingsAdjacent(b) ==
    LET w == find_king(b, "white")
        k == find_king(b, "black")
    IN /\ w # <<>>
       /\ k # <<>>
       /\ Max(Abs(position_to_indices(w)[1] - position_to_indices(k)[1]),
              Abs(position_to_indices(w)[2] - position_to_indices(k)[2])) = 1

C29_DecodeKeepsBoard == [][outcome'.op = "decode_move" => board' = board]_vars

\* C30: in the GUI game, after every successful human move that does not
\* end the game, the AI's move is eventually applied and the turn returns to
\* the human, or the game is reported over; the game never stays on the AI's
\* turn forever.
C30_TurnReturns ==
    (turn = ai_color /\ shown = "None") ~> (turn = human_color \/ shown # "None")

====
